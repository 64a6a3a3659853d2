--------------------------- MODULE ComputerVision ---------------------------
(***************************************************************************)
(* The entry points of the computer vision                                 *)
(* (rppi_computer_vision.cpp):                                             *)
(* for each operation its record, its helpers, one definition for each     *)
(* family of functions that the source keeps together, and their union.    *)
(***************************************************************************)
EXTENDS EntryPointShapes, OclWrappers, HipWrappers
-----------------------------------------------------------------------------
data_object_copy ==
  Operation("data_object_copy", {"dstPtr", "srcPtr"},
            <<>>,
            [OCL |-> data_object_copy_cl, HIP |-> data_object_copy_hip],
            [OCL |-> data_object_copy_cl_batch,
             HIP |-> data_object_copy_hip_batch])

data_object_copy_u8_pln1_gpu == GpuPlain(data_object_copy, "u8", PLN1)
data_object_copy_u8_pln1_batch_gpu ==
  GpuBatch(data_object_copy, "u8", PLN1, BatchShapes, "none")
data_object_copy_u8_pln3_gpu == GpuPlain(data_object_copy, "u8", PLN3)
data_object_copy_u8_pln3_batch_gpu ==
  GpuBatch(data_object_copy, "u8", PLN3, BatchShapes, "none")
data_object_copy_u8_pkd3_gpu == GpuPlain(data_object_copy, "u8", PKD3)
data_object_copy_u8_pkd3_batch_gpu ==
  GpuBatch(data_object_copy, "u8", PKD3, BatchShapes, "none")
data_object_copy_u8_pln1_host == HostPlain(data_object_copy, "u8", PLN1)
data_object_copy_u8_pln1_batch_host ==
  HostBatch(data_object_copy, "u8", PLN1, BatchShapes, "none")
data_object_copy_u8_pln3_host == HostPlain(data_object_copy, "u8", PLN3)
data_object_copy_u8_pln3_batch_host ==
  HostBatch(data_object_copy, "u8", PLN3, BatchShapes, "none")
data_object_copy_u8_pkd3_host == HostPlain(data_object_copy, "u8", PKD3)
data_object_copy_u8_pkd3_batch_host ==
  HostBatch(data_object_copy, "u8", PKD3, BatchShapes, "none")

data_object_copy_functions == UNION {
  data_object_copy_u8_pln1_gpu, data_object_copy_u8_pln1_batch_gpu,
  data_object_copy_u8_pln3_gpu, data_object_copy_u8_pln3_batch_gpu,
  data_object_copy_u8_pkd3_gpu, data_object_copy_u8_pkd3_batch_gpu,
  data_object_copy_u8_pln1_host, data_object_copy_u8_pln1_batch_host,
  data_object_copy_u8_pln3_host, data_object_copy_u8_pln3_batch_host,
  data_object_copy_u8_pkd3_host, data_object_copy_u8_pkd3_batch_host}
-----------------------------------------------------------------------------
local_binary_pattern ==
  Operation("local_binary_pattern", {"dstPtr", "srcPtr"},
            <<>>,
            [OCL |-> local_binary_pattern_cl,
             HIP |-> local_binary_pattern_hip],
            [OCL |-> local_binary_pattern_cl_batch,
             HIP |-> local_binary_pattern_hip_batch])

local_binary_pattern_u8_pln1_single_gpu ==
  GpuSingle(local_binary_pattern, "u8", PLN1)
local_binary_pattern_u8_pln1_batch_gpu ==
  GpuBatch(local_binary_pattern, "u8", PLN1, BatchShapes, "whole")
local_binary_pattern_u8_pln1_ROIS_gpu ==
  GpuBatch(local_binary_pattern, "u8", PLN1, BatchShapes, "one")
local_binary_pattern_u8_pln1_ROID_gpu ==
  GpuBatch(local_binary_pattern, "u8", PLN1, BatchShapes, "each")
local_binary_pattern_u8_pln3_single_gpu ==
  GpuSingle(local_binary_pattern, "u8", PLN3)
local_binary_pattern_u8_pln3_batch_gpu ==
  GpuBatch(local_binary_pattern, "u8", PLN3, BatchShapes, "whole")
local_binary_pattern_u8_pln3_ROIS_gpu ==
  GpuBatch(local_binary_pattern, "u8", PLN3, BatchShapes, "one")
local_binary_pattern_u8_pln3_ROID_gpu ==
  GpuBatch(local_binary_pattern, "u8", PLN3, BatchShapes, "each")
local_binary_pattern_u8_pkd3_single_gpu ==
  GpuSingle(local_binary_pattern, "u8", PKD3)
local_binary_pattern_u8_pkd3_batch_gpu ==
  GpuBatch(local_binary_pattern, "u8", PKD3, BatchShapes, "whole")
local_binary_pattern_u8_pkd3_ROIS_gpu ==
  GpuBatch(local_binary_pattern, "u8", PKD3, BatchShapes, "one")
local_binary_pattern_u8_pkd3_ROID_gpu ==
  GpuBatch(local_binary_pattern, "u8", PKD3, BatchShapes, "each")
local_binary_pattern_u8_pln1_single_host ==
  HostSingle(local_binary_pattern, "u8", PLN1)
local_binary_pattern_u8_pln1_batch_host ==
  HostBatch(local_binary_pattern, "u8", PLN1, BatchShapes, "whole")
local_binary_pattern_u8_pln1_ROIS_host ==
  HostBatch(local_binary_pattern, "u8", PLN1, BatchShapes, "one")
local_binary_pattern_u8_pln1_ROID_host ==
  HostBatch(local_binary_pattern, "u8", PLN1, BatchShapes, "each")
local_binary_pattern_u8_pln3_single_host ==
  HostSingle(local_binary_pattern, "u8", PLN3)
local_binary_pattern_u8_pln3_batch_host ==
  HostBatch(local_binary_pattern, "u8", PLN3, BatchShapes, "whole")
local_binary_pattern_u8_pln3_ROIS_host ==
  HostBatch(local_binary_pattern, "u8", PLN3, BatchShapes, "one")
local_binary_pattern_u8_pln3_ROID_host ==
  HostBatch(local_binary_pattern, "u8", PLN3, BatchShapes, "each")
local_binary_pattern_u8_pkd3_single_host ==
  HostSingle(local_binary_pattern, "u8", PKD3)
local_binary_pattern_u8_pkd3_batch_host ==
  HostBatch(local_binary_pattern, "u8", PKD3, BatchShapes, "whole")
local_binary_pattern_u8_pkd3_ROIS_host ==
  HostBatch(local_binary_pattern, "u8", PKD3, BatchShapes, "one")
local_binary_pattern_u8_pkd3_ROID_host ==
  HostBatch(local_binary_pattern, "u8", PKD3, BatchShapes, "each")

local_binary_pattern_functions == UNION {
  local_binary_pattern_u8_pln1_single_gpu,
  local_binary_pattern_u8_pln1_batch_gpu,
  local_binary_pattern_u8_pln1_ROIS_gpu, local_binary_pattern_u8_pln1_ROID_gpu,
  local_binary_pattern_u8_pln3_single_gpu,
  local_binary_pattern_u8_pln3_batch_gpu,
  local_binary_pattern_u8_pln3_ROIS_gpu, local_binary_pattern_u8_pln3_ROID_gpu,
  local_binary_pattern_u8_pkd3_single_gpu,
  local_binary_pattern_u8_pkd3_batch_gpu,
  local_binary_pattern_u8_pkd3_ROIS_gpu, local_binary_pattern_u8_pkd3_ROID_gpu,
  local_binary_pattern_u8_pln1_single_host,
  local_binary_pattern_u8_pln1_batch_host,
  local_binary_pattern_u8_pln1_ROIS_host,
  local_binary_pattern_u8_pln1_ROID_host,
  local_binary_pattern_u8_pln3_single_host,
  local_binary_pattern_u8_pln3_batch_host,
  local_binary_pattern_u8_pln3_ROIS_host,
  local_binary_pattern_u8_pln3_ROID_host,
  local_binary_pattern_u8_pkd3_single_host,
  local_binary_pattern_u8_pkd3_batch_host,
  local_binary_pattern_u8_pkd3_ROIS_host,
  local_binary_pattern_u8_pkd3_ROID_host}
-----------------------------------------------------------------------------
canny_edge_detector ==
  Operation("canny_edge_detector", {"dstPtr", "srcPtr"},
            <<P("minThreshold", "ucharArr0"), P("maxThreshold", "ucharArr1")>>,
            [OCL |-> canny_edge_detector_cl, HIP |-> canny_edge_detector_hip],
            [OCL |-> canny_edge_detector_cl_batch,
             HIP |-> canny_edge_detector_hip_batch])

canny_edge_detector_u8_pln1_gpu == GpuPlain(canny_edge_detector, "u8", PLN1)
canny_edge_detector_u8_pln1_batch_gpu ==
  GpuBatch(canny_edge_detector, "u8", PLN1, BatchShapes, "none")
canny_edge_detector_u8_pln3_gpu == GpuPlain(canny_edge_detector, "u8", PLN3)
canny_edge_detector_u8_pln3_batch_gpu ==
  GpuBatch(canny_edge_detector, "u8", PLN3, BatchShapes, "none")
canny_edge_detector_u8_pkd3_gpu == GpuPlain(canny_edge_detector, "u8", PKD3)
canny_edge_detector_u8_pkd3_batch_gpu ==
  GpuBatch(canny_edge_detector, "u8", PKD3, BatchShapes, "none")
canny_edge_detector_u8_pln1_host == HostPlain(canny_edge_detector, "u8", PLN1)
canny_edge_detector_u8_pln1_batch_host ==
  HostBatch(canny_edge_detector, "u8", PLN1, BatchShapes, "none")
canny_edge_detector_u8_pln3_host == HostPlain(canny_edge_detector, "u8", PLN3)
canny_edge_detector_u8_pln3_batch_host ==
  HostBatch(canny_edge_detector, "u8", PLN3, BatchShapes, "none")
canny_edge_detector_u8_pkd3_host == HostPlain(canny_edge_detector, "u8", PKD3)
canny_edge_detector_u8_pkd3_batch_host ==
  HostBatch(canny_edge_detector, "u8", PKD3, BatchShapes, "none")

canny_edge_detector_functions == UNION {
  canny_edge_detector_u8_pln1_gpu, canny_edge_detector_u8_pln1_batch_gpu,
  canny_edge_detector_u8_pln3_gpu, canny_edge_detector_u8_pln3_batch_gpu,
  canny_edge_detector_u8_pkd3_gpu, canny_edge_detector_u8_pkd3_batch_gpu,
  canny_edge_detector_u8_pln1_host, canny_edge_detector_u8_pln1_batch_host,
  canny_edge_detector_u8_pln3_host, canny_edge_detector_u8_pln3_batch_host,
  canny_edge_detector_u8_pkd3_host, canny_edge_detector_u8_pkd3_batch_host}
-----------------------------------------------------------------------------
harris_corner_detector ==
  Operation("harris_corner_detector", {"dstPtr", "srcPtr"},
            <<P("gaussianKernelSize", "uintArr0"), P("stdDev", "floatArr1"),
              P("kernelSize", "uintArr2"), P("kValue", "floatArr3"),
              P("threshold", "floatArr4"), P("nonmaxKernelSize", "uintArr5")>>,
            [OCL |-> harris_corner_detector_cl,
             HIP |-> harris_corner_detector_hip],
            [OCL |-> harris_corner_detector_cl_batch,
             HIP |-> harris_corner_detector_hip_batch])

harris_corner_detector_u8_pln1_gpu ==
  GpuPlain(harris_corner_detector, "u8", PLN1)
harris_corner_detector_u8_pln1_batch_gpu ==
  GpuBatch(harris_corner_detector, "u8", PLN1, BatchShapes, "none")
harris_corner_detector_u8_pln3_gpu ==
  GpuPlain(harris_corner_detector, "u8", PLN3)
harris_corner_detector_u8_pln3_batch_gpu ==
  GpuBatch(harris_corner_detector, "u8", PLN3, BatchShapes, "none")
harris_corner_detector_u8_pkd3_gpu ==
  GpuPlain(harris_corner_detector, "u8", PKD3)
harris_corner_detector_u8_pkd3_batch_gpu ==
  GpuBatch(harris_corner_detector, "u8", PKD3, BatchShapes, "none")
harris_corner_detector_u8_pln1_host ==
  HostPlain(harris_corner_detector, "u8", PLN1)
harris_corner_detector_u8_pln1_batch_host ==
  HostBatch(harris_corner_detector, "u8", PLN1, BatchShapes, "none")
harris_corner_detector_u8_pln3_host ==
  HostPlain(harris_corner_detector, "u8", PLN3)
harris_corner_detector_u8_pln3_batch_host ==
  HostBatch(harris_corner_detector, "u8", PLN3, BatchShapes, "none")
harris_corner_detector_u8_pkd3_host ==
  HostPlain(harris_corner_detector, "u8", PKD3)
harris_corner_detector_u8_pkd3_batch_host ==
  HostBatch(harris_corner_detector, "u8", PKD3, BatchShapes, "none")

harris_corner_detector_functions == UNION {
  harris_corner_detector_u8_pln1_gpu, harris_corner_detector_u8_pln1_batch_gpu,
  harris_corner_detector_u8_pln3_gpu, harris_corner_detector_u8_pln3_batch_gpu,
  harris_corner_detector_u8_pkd3_gpu, harris_corner_detector_u8_pkd3_batch_gpu,
  harris_corner_detector_u8_pln1_host,
  harris_corner_detector_u8_pln1_batch_host,
  harris_corner_detector_u8_pln3_host,
  harris_corner_detector_u8_pln3_batch_host,
  harris_corner_detector_u8_pkd3_host,
  harris_corner_detector_u8_pkd3_batch_host}
-----------------------------------------------------------------------------
fast_corner_detector ==
  Operation("fast_corner_detector", {"dstPtr", "srcPtr"},
            <<P("numOfPixels", "uintArr0"), P("threshold", "ucharArr1"),
              P("nonmaxKernelSize", "uintArr2")>>,
            [OCL |-> fast_corner_detector_cl,
             HIP |-> fast_corner_detector_hip],
            [OCL |-> fast_corner_detector_cl_batch,
             HIP |-> fast_corner_detector_hip_batch])

fast_corner_detector_u8_pln1_gpu == GpuPlain(fast_corner_detector, "u8", PLN1)
fast_corner_detector_u8_pln1_batch_gpu ==
  GpuBatch(fast_corner_detector, "u8", PLN1, BatchShapes, "none")
fast_corner_detector_u8_pln3_gpu == GpuPlain(fast_corner_detector, "u8", PLN3)
fast_corner_detector_u8_pln3_batch_gpu ==
  GpuBatch(fast_corner_detector, "u8", PLN3, BatchShapes, "none")
fast_corner_detector_u8_pkd3_gpu == GpuPlain(fast_corner_detector, "u8", PKD3)
fast_corner_detector_u8_pkd3_batch_gpu ==
  GpuBatch(fast_corner_detector, "u8", PKD3, BatchShapes, "none")
fast_corner_detector_u8_pln1_host ==
  HostPlain(fast_corner_detector, "u8", PLN1)
fast_corner_detector_u8_pln1_batch_host ==
  HostBatch(fast_corner_detector, "u8", PLN1, BatchShapes, "none")
fast_corner_detector_u8_pln3_host ==
  HostPlain(fast_corner_detector, "u8", PLN3)
fast_corner_detector_u8_pln3_batch_host ==
  HostBatch(fast_corner_detector, "u8", PLN3, BatchShapes, "none")
fast_corner_detector_u8_pkd3_host ==
  HostPlain(fast_corner_detector, "u8", PKD3)
fast_corner_detector_u8_pkd3_batch_host ==
  HostBatch(fast_corner_detector, "u8", PKD3, BatchShapes, "none")

fast_corner_detector_functions == UNION {
  fast_corner_detector_u8_pln1_gpu, fast_corner_detector_u8_pln1_batch_gpu,
  fast_corner_detector_u8_pln3_gpu, fast_corner_detector_u8_pln3_batch_gpu,
  fast_corner_detector_u8_pkd3_gpu, fast_corner_detector_u8_pkd3_batch_gpu,
  fast_corner_detector_u8_pln1_host, fast_corner_detector_u8_pln1_batch_host,
  fast_corner_detector_u8_pln3_host, fast_corner_detector_u8_pln3_batch_host,
  fast_corner_detector_u8_pkd3_host, fast_corner_detector_u8_pkd3_batch_host}
-----------------------------------------------------------------------------
gaussian_image_pyramid ==
  Operation("gaussian_image_pyramid", {"dstPtr", "srcPtr"},
            <<P("stdDev", "floatArr0"), P("kernelSize", "uintArr1")>>,
            [OCL |-> gaussian_image_pyramid_cl,
             HIP |-> gaussian_image_pyramid_hip],
            [OCL |-> gaussian_image_pyramid_cl_batch,
             HIP |-> gaussian_image_pyramid_hip_batch])

gaussian_image_pyramid_u8_pln1_gpu ==
  GpuPlain(gaussian_image_pyramid, "u8", PLN1)
gaussian_image_pyramid_u8_pln1_batch_gpu ==
  GpuBatch(gaussian_image_pyramid, "u8", PLN1, BatchShapes, "none")
gaussian_image_pyramid_u8_pln3_gpu ==
  GpuPlain(gaussian_image_pyramid, "u8", PLN3)
gaussian_image_pyramid_u8_pln3_batch_gpu ==
  GpuBatch(gaussian_image_pyramid, "u8", PLN3, BatchShapes, "none")
gaussian_image_pyramid_u8_pkd3_gpu ==
  GpuPlain(gaussian_image_pyramid, "u8", PKD3)
gaussian_image_pyramid_u8_pkd3_batch_gpu ==
  GpuBatch(gaussian_image_pyramid, "u8", PKD3, BatchShapes, "none")
gaussian_image_pyramid_u8_pln1_host ==
  HostPlain(gaussian_image_pyramid, "u8", PLN1)
gaussian_image_pyramid_u8_pln1_batch_host ==
  HostBatch(gaussian_image_pyramid, "u8", PLN1, BatchShapes, "none")
gaussian_image_pyramid_u8_pln3_host ==
  HostPlain(gaussian_image_pyramid, "u8", PLN3)
gaussian_image_pyramid_u8_pln3_batch_host ==
  HostBatch(gaussian_image_pyramid, "u8", PLN3, BatchShapes, "none")
gaussian_image_pyramid_u8_pkd3_host ==
  HostPlain(gaussian_image_pyramid, "u8", PKD3)
gaussian_image_pyramid_u8_pkd3_batch_host ==
  HostBatch(gaussian_image_pyramid, "u8", PKD3, BatchShapes, "none")

gaussian_image_pyramid_functions == UNION {
  gaussian_image_pyramid_u8_pln1_gpu, gaussian_image_pyramid_u8_pln1_batch_gpu,
  gaussian_image_pyramid_u8_pln3_gpu, gaussian_image_pyramid_u8_pln3_batch_gpu,
  gaussian_image_pyramid_u8_pkd3_gpu, gaussian_image_pyramid_u8_pkd3_batch_gpu,
  gaussian_image_pyramid_u8_pln1_host,
  gaussian_image_pyramid_u8_pln1_batch_host,
  gaussian_image_pyramid_u8_pln3_host,
  gaussian_image_pyramid_u8_pln3_batch_host,
  gaussian_image_pyramid_u8_pkd3_host,
  gaussian_image_pyramid_u8_pkd3_batch_host}
-----------------------------------------------------------------------------
laplacian_image_pyramid ==
  Operation("laplacian_image_pyramid", {"dstPtr", "srcPtr"},
            <<P("stdDev", "floatArr0"), P("kernelSize", "uintArr1")>>,
            [OCL |-> laplacian_image_pyramid_cl,
             HIP |-> laplacian_image_pyramid_hip],
            [OCL |-> laplacian_image_pyramid_cl_batch,
             HIP |-> laplacian_image_pyramid_hip_batch])

laplacian_image_pyramid_u8_pln1_gpu ==
  GpuPlain(laplacian_image_pyramid, "u8", PLN1)
laplacian_image_pyramid_u8_pln1_batch_gpu ==
  GpuBatch(laplacian_image_pyramid, "u8", PLN1, BatchShapes, "none")
laplacian_image_pyramid_u8_pln3_gpu ==
  GpuPlain(laplacian_image_pyramid, "u8", PLN3)
laplacian_image_pyramid_u8_pln3_batch_gpu ==
  GpuBatch(laplacian_image_pyramid, "u8", PLN3, BatchShapes, "none")
laplacian_image_pyramid_u8_pkd3_gpu ==
  GpuPlain(laplacian_image_pyramid, "u8", PKD3)
laplacian_image_pyramid_u8_pkd3_batch_gpu ==
  GpuBatch(laplacian_image_pyramid, "u8", PKD3, BatchShapes, "none")
laplacian_image_pyramid_u8_pln1_host ==
  HostPlain(laplacian_image_pyramid, "u8", PLN1)
laplacian_image_pyramid_u8_pln1_batch_host ==
  HostBatch(laplacian_image_pyramid, "u8", PLN1, BatchShapes, "none")
laplacian_image_pyramid_u8_pln3_host ==
  HostPlain(laplacian_image_pyramid, "u8", PLN3)
laplacian_image_pyramid_u8_pln3_batch_host ==
  HostBatch(laplacian_image_pyramid, "u8", PLN3, BatchShapes, "none")
laplacian_image_pyramid_u8_pkd3_host ==
  HostPlain(laplacian_image_pyramid, "u8", PKD3)
laplacian_image_pyramid_u8_pkd3_batch_host ==
  HostBatch(laplacian_image_pyramid, "u8", PKD3, BatchShapes, "none")

laplacian_image_pyramid_functions == UNION {
  laplacian_image_pyramid_u8_pln1_gpu,
  laplacian_image_pyramid_u8_pln1_batch_gpu,
  laplacian_image_pyramid_u8_pln3_gpu,
  laplacian_image_pyramid_u8_pln3_batch_gpu,
  laplacian_image_pyramid_u8_pkd3_gpu,
  laplacian_image_pyramid_u8_pkd3_batch_gpu,
  laplacian_image_pyramid_u8_pln1_host,
  laplacian_image_pyramid_u8_pln1_batch_host,
  laplacian_image_pyramid_u8_pln3_host,
  laplacian_image_pyramid_u8_pln3_batch_host,
  laplacian_image_pyramid_u8_pkd3_host,
  laplacian_image_pyramid_u8_pkd3_batch_host}
-----------------------------------------------------------------------------
remap ==
  Operation("remap", {"colRemapTable", "dstPtr", "rowRemapTable", "srcPtr"},
            <<>>,
            [OCL |-> remap_cl, HIP |-> remap_hip],
            [OCL |-> remap_cl_batch, HIP |-> remap_hip_batch])

remap_u8_pln1_gpu == GpuPlain(remap, "u8", PLN1)
remap_u8_pln1_batch_gpu == GpuBatch(remap, "u8", PLN1, BatchShapes, "none")
remap_u8_pln3_gpu == GpuPlain(remap, "u8", PLN3)
remap_u8_pln3_batch_gpu == GpuBatch(remap, "u8", PLN3, BatchShapes, "none")
remap_u8_pkd3_gpu == GpuPlain(remap, "u8", PKD3)
remap_u8_pkd3_batch_gpu == GpuBatch(remap, "u8", PKD3, BatchShapes, "none")
remap_u8_pln1_host == HostPlain(remap, "u8", PLN1)
remap_u8_pln1_batch_host == HostBatch(remap, "u8", PLN1, BatchShapes, "none")
remap_u8_pln3_host == HostPlain(remap, "u8", PLN3)
remap_u8_pln3_batch_host == HostBatch(remap, "u8", PLN3, BatchShapes, "none")
remap_u8_pkd3_host == HostPlain(remap, "u8", PKD3)
remap_u8_pkd3_batch_host == HostBatch(remap, "u8", PKD3, BatchShapes, "none")

remap_functions == UNION {
  remap_u8_pln1_gpu, remap_u8_pln1_batch_gpu, remap_u8_pln3_gpu,
  remap_u8_pln3_batch_gpu, remap_u8_pkd3_gpu, remap_u8_pkd3_batch_gpu,
  remap_u8_pln1_host, remap_u8_pln1_batch_host, remap_u8_pln3_host,
  remap_u8_pln3_batch_host, remap_u8_pkd3_host, remap_u8_pkd3_batch_host}
-----------------------------------------------------------------------------
hog ==
  ThreePlanes(
    Operation("hog",
              {"binsTensor", "binsTensorLength", "kernelSize", "numOfBins",
               "srcPtr", "windowSize", "windowStride"},
              <<>>,
              [OCL |-> Nothing, HIP |-> Nothing],
              [OCL |-> Nothing, HIP |-> Nothing]))

hog_u8_pln1_host == HostPlain(hog, "u8", PLN1)
hog_u8_pln1_batchPD_host == HostBatch(hog, "u8", PLN1, {"PD"}, "none")
hog_u8_pln3_host == HostPlain(hog, "u8", PLN3)
hog_u8_pln3_batchPD_host == HostBatch(hog, "u8", PLN3, {"PD"}, "none")
hog_u8_pkd3_host == HostPlain(hog, "u8", PKD3)
hog_u8_pkd3_batchPD_host == HostBatch(hog, "u8", PKD3, {"PD"}, "none")

hog_functions == UNION {
  hog_u8_pln1_host, hog_u8_pln1_batchPD_host, hog_u8_pln3_host,
  hog_u8_pln3_batchPD_host, hog_u8_pkd3_host, hog_u8_pkd3_batchPD_host}
-----------------------------------------------------------------------------
hough_lines ==
  Operation("hough_lines",
            {"lines", "linesMax", "maxLineGap", "minLineLength", "rho",
             "srcPtr", "theta", "threshold"},
            <<>>,
            [OCL |-> Nothing, HIP |-> Nothing],
            [OCL |-> Nothing, HIP |-> Nothing])

hough_lines_u8_pln1_host == HostPlain(hough_lines, "u8", PLN1)
hough_lines_u8_pln1_batchPD_host ==
  HostBatch(hough_lines, "u8", PLN1, {"PD"}, "none")
hough_lines_u8_pln1_gpu == Unimplemented(hough_lines, "u8", PLN1, {"plain"})
hough_lines_u8_pln1_batchPD_gpu ==
  Unimplemented(hough_lines, "u8", PLN1, {"PD"})

hough_lines_functions == UNION {
  hough_lines_u8_pln1_host, hough_lines_u8_pln1_batchPD_host,
  hough_lines_u8_pln1_gpu, hough_lines_u8_pln1_batchPD_gpu}

-----------------------------------------------------------------------------
reconstruction_laplacian_image_pyramid ==
  Operation("reconstruction_laplacian_image_pyramid", {}, <<>>,
            [OCL |-> Nothing, HIP |-> Nothing],
            [OCL |-> Nothing, HIP |-> Nothing])

reconstruction_args ==
  {"srcPtr1", "srcSize1", "srcPtr2", "srcSize2", "dstPtr", "stdDev",
   "kernelSize"}
reconstruction_max_args == {"maxSrcSize1", "maxSrcSize2", "nbatchSize"}

\* The maximum of the second image is staged as the maximum of the source, and
\* that of the first as the maximum of the destination.
reconstruction_max_staging ==
  <<copy_host("hostMaxSrcSize", "maxSrcSize2"),
    copy_host("hostMaxDstSize", "maxSrcSize1")>>

reconstruction_plain(device, f, passes, kernel) ==
  Entry(reconstruction_laplacian_image_pyramid, device, "u8", f, "plain",
        "none", reconstruction_args, <<>>, passes,
        [b \in Backends |-> kernel])
reconstruction_batchPD(device, f, staging, passes, kernel) ==
  Entry(reconstruction_laplacian_image_pyramid, device, "u8", f, "PD", "none",
        reconstruction_args \cup reconstruction_max_args, staging, passes,
        [b \in Backends |-> kernel])

reconstruction_host(f) ==
  {reconstruction_plain("host", f, reconstruction_args, OneImage),
   reconstruction_batchPD("host", f, reconstruction_max_staging,
     reconstruction_args, WholeBatch(Arrays(reconstruction_max_staging)))}

\* On the GPU nothing is implemented; the pln3 function still stages.
reconstruction_gpu(f, staging) ==
  {reconstruction_plain("gpu", f, {}, Nothing),
   reconstruction_batchPD("gpu", f, staging, {}, Nothing)}

reconstruction_u8_pln1_host == reconstruction_host(PLN1)
reconstruction_u8_pln3_host == reconstruction_host(PLN3)
reconstruction_u8_pkd3_host == reconstruction_host(PKD3)
reconstruction_u8_pln1_gpu == reconstruction_gpu(PLN1, <<>>)
reconstruction_u8_pln3_gpu ==
  reconstruction_gpu(PLN3, reconstruction_max_staging)
reconstruction_u8_pkd3_gpu == reconstruction_gpu(PKD3, <<>>)

reconstruction_laplacian_image_pyramid_functions == UNION {
  reconstruction_u8_pln1_host, reconstruction_u8_pln3_host,
  reconstruction_u8_pkd3_host, reconstruction_u8_pln1_gpu,
  reconstruction_u8_pln3_gpu, reconstruction_u8_pkd3_gpu}

-----------------------------------------------------------------------------
convert_bit_depth ==
  HostIgnoring({"srcSize"}, ThreePlanes(
    Operation("convert_bit_depth", {"dstPtr", "srcPtr"},
              <<>>,
              [OCL |-> Nothing, HIP |-> Nothing],
              [OCL |-> convert_bit_depth_cl_batch, HIP |-> Nothing])))

convert_bit_depth_u8s8_pln1_host == HostPlain(convert_bit_depth, "u8s8", PLN1)
convert_bit_depth_u8u16_pln1_host ==
  HostPlain(convert_bit_depth, "u8u16", PLN1)
convert_bit_depth_u8s16_pln1_host ==
  HostPlain(convert_bit_depth, "u8s16", PLN1)
convert_bit_depth_u8s8_pln1_batchPD_host ==
  HostBatch(convert_bit_depth, "u8s8", PLN1, {"PD"}, "none")
convert_bit_depth_u8u16_pln1_batchPD_host ==
  HostBatch(convert_bit_depth, "u8u16", PLN1, {"PD"}, "none")
convert_bit_depth_u8s16_pln1_batchPD_host ==
  HostBatch(convert_bit_depth, "u8s16", PLN1, {"PD"}, "none")
convert_bit_depth_u8s8_pln3_host == HostPlain(convert_bit_depth, "u8s8", PLN3)
convert_bit_depth_u8u16_pln3_host ==
  HostPlain(convert_bit_depth, "u8u16", PLN3)
convert_bit_depth_u8s16_pln3_host ==
  HostPlain(convert_bit_depth, "u8s16", PLN3)
convert_bit_depth_u8s8_pln3_batchPD_host ==
  HostBatch(convert_bit_depth, "u8s8", PLN3, {"PD"}, "none")
convert_bit_depth_u8u16_pln3_batchPD_host ==
  HostBatch(convert_bit_depth, "u8u16", PLN3, {"PD"}, "none")
convert_bit_depth_u8s16_pln3_batchPD_host ==
  HostBatch(convert_bit_depth, "u8s16", PLN3, {"PD"}, "none")
convert_bit_depth_u8s8_pkd3_host == HostPlain(convert_bit_depth, "u8s8", PKD3)
convert_bit_depth_u8u16_pkd3_host ==
  HostPlain(convert_bit_depth, "u8u16", PKD3)
convert_bit_depth_u8s16_pkd3_host ==
  HostPlain(convert_bit_depth, "u8s16", PKD3)
convert_bit_depth_u8s8_pkd3_batchPD_host ==
  HostBatch(convert_bit_depth, "u8s8", PKD3, {"PD"}, "none")
convert_bit_depth_u8u16_pkd3_batchPD_host ==
  HostBatch(convert_bit_depth, "u8u16", PKD3, {"PD"}, "none")
convert_bit_depth_u8s16_pkd3_batchPD_host ==
  HostBatch(convert_bit_depth, "u8s16", PKD3, {"PD"}, "none")
convert_bit_depth_u8s8_pln1_batchPD_gpu ==
  GpuBatch(convert_bit_depth, "u8s8", PLN1, {"PD"}, "whole")
convert_bit_depth_u8u16_pln1_batchPD_gpu ==
  GpuBatch(convert_bit_depth, "u8u16", PLN1, {"PD"}, "whole")
convert_bit_depth_u8s16_pln1_batchPD_gpu ==
  GpuBatch(convert_bit_depth, "u8s16", PLN1, {"PD"}, "whole")
convert_bit_depth_u8s8_pln3_batchPD_gpu ==
  GpuBatch(convert_bit_depth, "u8s8", PLN3, {"PD"}, "whole")
convert_bit_depth_u8u16_pln3_batchPD_gpu ==
  GpuBatch(convert_bit_depth, "u8u16", PLN3, {"PD"}, "whole")
convert_bit_depth_u8s16_pln3_batchPD_gpu ==
  GpuBatch(convert_bit_depth, "u8s16", PLN3, {"PD"}, "whole")
convert_bit_depth_u8s8_pkd3_batchPD_gpu ==
  GpuBatch(convert_bit_depth, "u8s8", PKD3, {"PD"}, "whole")
convert_bit_depth_u8u16_pkd3_batchPD_gpu ==
  GpuBatch(convert_bit_depth, "u8u16", PKD3, {"PD"}, "whole")
convert_bit_depth_u8s16_pkd3_batchPD_gpu ==
  GpuBatch(convert_bit_depth, "u8s16", PKD3, {"PD"}, "whole")

convert_bit_depth_functions == UNION {
  convert_bit_depth_u8s8_pln1_host, convert_bit_depth_u8u16_pln1_host,
  convert_bit_depth_u8s16_pln1_host, convert_bit_depth_u8s8_pln1_batchPD_host,
  convert_bit_depth_u8u16_pln1_batchPD_host,
  convert_bit_depth_u8s16_pln1_batchPD_host, convert_bit_depth_u8s8_pln3_host,
  convert_bit_depth_u8u16_pln3_host, convert_bit_depth_u8s16_pln3_host,
  convert_bit_depth_u8s8_pln3_batchPD_host,
  convert_bit_depth_u8u16_pln3_batchPD_host,
  convert_bit_depth_u8s16_pln3_batchPD_host, convert_bit_depth_u8s8_pkd3_host,
  convert_bit_depth_u8u16_pkd3_host, convert_bit_depth_u8s16_pkd3_host,
  convert_bit_depth_u8s8_pkd3_batchPD_host,
  convert_bit_depth_u8u16_pkd3_batchPD_host,
  convert_bit_depth_u8s16_pkd3_batchPD_host,
  convert_bit_depth_u8s8_pln1_batchPD_gpu,
  convert_bit_depth_u8u16_pln1_batchPD_gpu,
  convert_bit_depth_u8s16_pln1_batchPD_gpu,
  convert_bit_depth_u8s8_pln3_batchPD_gpu,
  convert_bit_depth_u8u16_pln3_batchPD_gpu,
  convert_bit_depth_u8s16_pln3_batchPD_gpu,
  convert_bit_depth_u8s8_pkd3_batchPD_gpu,
  convert_bit_depth_u8u16_pkd3_batchPD_gpu,
  convert_bit_depth_u8s16_pkd3_batchPD_gpu}
-----------------------------------------------------------------------------
ComputerVisionFunctions ==
  UNION {data_object_copy_functions, local_binary_pattern_functions,
  canny_edge_detector_functions, harris_corner_detector_functions,
  fast_corner_detector_functions, gaussian_image_pyramid_functions,
  laplacian_image_pyramid_functions, remap_functions, hog_functions,
  hough_lines_functions, reconstruction_laplacian_image_pyramid_functions,
  convert_bit_depth_functions}
=============================================================================
