-------------------------- MODULE FilterOperations --------------------------
(***************************************************************************)
(* The entry points of the filter operations                               *)
(* (rppi_filter_operations.cpp):                                           *)
(* for each operation its record, its helpers, one definition for each     *)
(* family of functions that the source keeps together, and their union.    *)
(***************************************************************************)
EXTENDS EntryPointShapes, OclWrappers, HipWrappers
-----------------------------------------------------------------------------
gaussian_filter ==
  Operation("gaussian_filter", {"dstPtr", "srcPtr"},
            <<P("stdDev", "floatArr0"), P("kernelSize", "uintArr1")>>,
            [OCL |-> gaussian_filter_cl, HIP |-> gaussian_filter_hip],
            [OCL |-> gaussian_filter_cl_batch,
             HIP |-> gaussian_filter_hip_batch])

gaussian_filter_u8_pln1_single_gpu == GpuSingle(gaussian_filter, "u8", PLN1)
gaussian_filter_u8_pln1_batch_gpu ==
  GpuBatch(gaussian_filter, "u8", PLN1, BatchShapes, "whole")
gaussian_filter_u8_pln1_ROIS_gpu ==
  GpuBatch(gaussian_filter, "u8", PLN1, BatchShapes, "one")
gaussian_filter_u8_pln1_ROID_gpu ==
  GpuBatch(gaussian_filter, "u8", PLN1, BatchShapes, "each")
gaussian_filter_u8_pln3_single_gpu == GpuSingle(gaussian_filter, "u8", PLN3)
gaussian_filter_u8_pln3_batch_gpu ==
  GpuBatch(gaussian_filter, "u8", PLN3, BatchShapes, "whole")
gaussian_filter_u8_pln3_ROIS_gpu ==
  GpuBatch(gaussian_filter, "u8", PLN3, BatchShapes, "one")
gaussian_filter_u8_pln3_ROID_gpu ==
  GpuBatch(gaussian_filter, "u8", PLN3, BatchShapes, "each")
gaussian_filter_u8_pkd3_single_gpu == GpuSingle(gaussian_filter, "u8", PKD3)
gaussian_filter_u8_pkd3_batch_gpu ==
  GpuBatch(gaussian_filter, "u8", PKD3, BatchShapes, "whole")
gaussian_filter_u8_pkd3_ROIS_gpu ==
  GpuBatch(gaussian_filter, "u8", PKD3, BatchShapes, "one")
gaussian_filter_u8_pkd3_ROID_gpu ==
  GpuBatch(gaussian_filter, "u8", PKD3, BatchShapes, "each")
gaussian_filter_u8_pln1_single_host == HostSingle(gaussian_filter, "u8", PLN1)
gaussian_filter_u8_pln1_batch_host ==
  HostBatch(gaussian_filter, "u8", PLN1, BatchShapes, "whole")
gaussian_filter_u8_pln1_ROIS_host ==
  HostBatch(gaussian_filter, "u8", PLN1, BatchShapes, "one")
gaussian_filter_u8_pln1_ROID_host ==
  HostBatch(gaussian_filter, "u8", PLN1, BatchShapes, "each")
gaussian_filter_u8_pln3_single_host == HostSingle(gaussian_filter, "u8", PLN3)
gaussian_filter_u8_pln3_batch_host ==
  HostBatch(gaussian_filter, "u8", PLN3, BatchShapes, "whole")
gaussian_filter_u8_pln3_ROIS_host ==
  HostBatch(gaussian_filter, "u8", PLN3, BatchShapes, "one")
gaussian_filter_u8_pln3_ROID_host ==
  HostBatch(gaussian_filter, "u8", PLN3, BatchShapes, "each")
gaussian_filter_u8_pkd3_single_host == HostSingle(gaussian_filter, "u8", PKD3)
gaussian_filter_u8_pkd3_batch_host ==
  HostBatch(gaussian_filter, "u8", PKD3, BatchShapes, "whole")
gaussian_filter_u8_pkd3_ROIS_host ==
  HostBatch(gaussian_filter, "u8", PKD3, BatchShapes, "one")
gaussian_filter_u8_pkd3_ROID_host ==
  HostBatch(gaussian_filter, "u8", PKD3, BatchShapes, "each")

gaussian_filter_functions == UNION {
  gaussian_filter_u8_pln1_single_gpu, gaussian_filter_u8_pln1_batch_gpu,
  gaussian_filter_u8_pln1_ROIS_gpu, gaussian_filter_u8_pln1_ROID_gpu,
  gaussian_filter_u8_pln3_single_gpu, gaussian_filter_u8_pln3_batch_gpu,
  gaussian_filter_u8_pln3_ROIS_gpu, gaussian_filter_u8_pln3_ROID_gpu,
  gaussian_filter_u8_pkd3_single_gpu, gaussian_filter_u8_pkd3_batch_gpu,
  gaussian_filter_u8_pkd3_ROIS_gpu, gaussian_filter_u8_pkd3_ROID_gpu,
  gaussian_filter_u8_pln1_single_host, gaussian_filter_u8_pln1_batch_host,
  gaussian_filter_u8_pln1_ROIS_host, gaussian_filter_u8_pln1_ROID_host,
  gaussian_filter_u8_pln3_single_host, gaussian_filter_u8_pln3_batch_host,
  gaussian_filter_u8_pln3_ROIS_host, gaussian_filter_u8_pln3_ROID_host,
  gaussian_filter_u8_pkd3_single_host, gaussian_filter_u8_pkd3_batch_host,
  gaussian_filter_u8_pkd3_ROIS_host, gaussian_filter_u8_pkd3_ROID_host}
-----------------------------------------------------------------------------
median_filter ==
  ThreePlanes(
    Operation("median_filter", {"dstPtr", "srcPtr"},
              <<P("kernelSize", "uintArr0")>>,
              [OCL |-> median_filter_cl_batch,
               HIP |-> median_filter_hip_batch],
              [OCL |-> median_filter_cl_batch,
               HIP |-> median_filter_hip_batch]))

median_filter_u8_pln1_single_gpu ==
  GpuStagedPlain(median_filter, "u8", PLN1)
  \cup GpuRoi(median_filter, "u8", PLN1)
median_filter_u8_pln1_batch_gpu ==
  GpuBatch(median_filter, "u8", PLN1, BatchShapes, "whole")
median_filter_u8_pln1_ROIS_gpu ==
  GpuBatch(median_filter, "u8", PLN1, BatchShapes, "one")
median_filter_u8_pln1_ROID_gpu ==
  GpuBatch(median_filter, "u8", PLN1, BatchShapes, "each")
median_filter_u8_pln3_single_gpu ==
  GpuStagedPlain(median_filter, "u8", PLN3)
  \cup GpuRoi(median_filter, "u8", PLN3)
median_filter_u8_pln3_batch_gpu ==
  GpuBatch(median_filter, "u8", PLN3, BatchShapes, "whole")
median_filter_u8_pln3_ROIS_gpu ==
  GpuBatch(median_filter, "u8", PLN3, BatchShapes, "one")
median_filter_u8_pln3_ROID_gpu ==
  GpuBatch(median_filter, "u8", PLN3, BatchShapes, "each")
median_filter_u8_pkd3_single_gpu ==
  GpuStagedPlain(median_filter, "u8", PKD3)
  \cup GpuRoi(median_filter, "u8", PKD3)
median_filter_u8_pkd3_batch_gpu ==
  GpuBatch(median_filter, "u8", PKD3, BatchShapes, "whole")
median_filter_u8_pkd3_ROIS_gpu ==
  GpuBatch(median_filter, "u8", PKD3, BatchShapes, "one")
median_filter_u8_pkd3_ROID_gpu ==
  GpuBatch(median_filter, "u8", PKD3, BatchShapes, "each")
median_filter_u8_pln1_single_host ==
  HostStagedPlain(median_filter, "u8", PLN1)
  \cup HostRoi(median_filter, "u8", PLN1)
median_filter_u8_pln1_batch_host ==
  HostBatch(median_filter, "u8", PLN1, BatchShapes, "whole")
median_filter_u8_pln1_ROIS_host ==
  HostBatch(median_filter, "u8", PLN1, BatchShapes, "one")
median_filter_u8_pln1_ROID_host ==
  HostBatch(median_filter, "u8", PLN1, BatchShapes, "each")
median_filter_u8_pln3_single_host ==
  HostStagedPlain(median_filter, "u8", PLN3)
  \cup HostRoi(median_filter, "u8", PLN3)
median_filter_u8_pln3_batch_host ==
  HostBatch(median_filter, "u8", PLN3, BatchShapes, "whole")
median_filter_u8_pln3_ROIS_host ==
  HostBatch(median_filter, "u8", PLN3, BatchShapes, "one")
median_filter_u8_pln3_ROID_host ==
  HostBatch(median_filter, "u8", PLN3, BatchShapes, "each")
median_filter_u8_pkd3_single_host ==
  HostStagedPlain(median_filter, "u8", PKD3)
  \cup HostRoi(median_filter, "u8", PKD3)
median_filter_u8_pkd3_batch_host ==
  HostBatch(median_filter, "u8", PKD3, BatchShapes, "whole")
median_filter_u8_pkd3_ROIS_host ==
  HostBatch(median_filter, "u8", PKD3, BatchShapes, "one")
median_filter_u8_pkd3_ROID_host ==
  HostBatch(median_filter, "u8", PKD3, BatchShapes, "each")

median_filter_functions == UNION {
  median_filter_u8_pln1_single_gpu, median_filter_u8_pln1_batch_gpu,
  median_filter_u8_pln1_ROIS_gpu, median_filter_u8_pln1_ROID_gpu,
  median_filter_u8_pln3_single_gpu, median_filter_u8_pln3_batch_gpu,
  median_filter_u8_pln3_ROIS_gpu, median_filter_u8_pln3_ROID_gpu,
  median_filter_u8_pkd3_single_gpu, median_filter_u8_pkd3_batch_gpu,
  median_filter_u8_pkd3_ROIS_gpu, median_filter_u8_pkd3_ROID_gpu,
  median_filter_u8_pln1_single_host, median_filter_u8_pln1_batch_host,
  median_filter_u8_pln1_ROIS_host, median_filter_u8_pln1_ROID_host,
  median_filter_u8_pln3_single_host, median_filter_u8_pln3_batch_host,
  median_filter_u8_pln3_ROIS_host, median_filter_u8_pln3_ROID_host,
  median_filter_u8_pkd3_single_host, median_filter_u8_pkd3_batch_host,
  median_filter_u8_pkd3_ROIS_host, median_filter_u8_pkd3_ROID_host}
-----------------------------------------------------------------------------
nonlinear_filter ==
  ThreePlanes(
    Operation("nonlinear_filter", {"dstPtr", "srcPtr"},
              <<P("kernelSize", "uintArr0")>>,
              [OCL |-> median_filter_cl_batch,
               HIP |-> median_filter_hip_batch],
              [OCL |-> median_filter_cl_batch,
               HIP |-> median_filter_hip_batch]))

nonlinear_filter_u8_pln1_single_gpu ==
  GpuStagedPlain(nonlinear_filter, "u8", PLN1)
  \cup GpuRoi(nonlinear_filter, "u8", PLN1)
nonlinear_filter_u8_pln1_batch_gpu ==
  GpuBatch(nonlinear_filter, "u8", PLN1, BatchShapes, "whole")
nonlinear_filter_u8_pln1_ROIS_gpu ==
  GpuBatch(nonlinear_filter, "u8", PLN1, BatchShapes, "one")
nonlinear_filter_u8_pln1_ROID_gpu ==
  GpuBatch(nonlinear_filter, "u8", PLN1, BatchShapes, "each")
nonlinear_filter_u8_pln3_single_gpu ==
  GpuStagedPlain(nonlinear_filter, "u8", PLN3)
  \cup GpuRoi(nonlinear_filter, "u8", PLN3)
nonlinear_filter_u8_pln3_batch_gpu ==
  GpuBatch(nonlinear_filter, "u8", PLN3, BatchShapes, "whole")
nonlinear_filter_u8_pln3_ROIS_gpu ==
  GpuBatch(nonlinear_filter, "u8", PLN3, BatchShapes, "one")
nonlinear_filter_u8_pln3_ROID_gpu ==
  GpuBatch(nonlinear_filter, "u8", PLN3, BatchShapes, "each")
nonlinear_filter_u8_pkd3_single_gpu ==
  GpuStagedPlain(nonlinear_filter, "u8", PKD3)
  \cup GpuRoi(nonlinear_filter, "u8", PKD3)
nonlinear_filter_u8_pkd3_batch_gpu ==
  GpuBatch(nonlinear_filter, "u8", PKD3, BatchShapes, "whole")
nonlinear_filter_u8_pkd3_ROIS_gpu ==
  GpuBatch(nonlinear_filter, "u8", PKD3, BatchShapes, "one")
nonlinear_filter_u8_pkd3_ROID_gpu ==
  GpuBatch(nonlinear_filter, "u8", PKD3, BatchShapes, "each")
nonlinear_filter_u8_pln1_single_host ==
  HostStagedPlain(nonlinear_filter, "u8", PLN1)
  \cup HostRoi(nonlinear_filter, "u8", PLN1)
nonlinear_filter_u8_pln1_batch_host ==
  HostBatch(nonlinear_filter, "u8", PLN1, BatchShapes, "whole")
nonlinear_filter_u8_pln1_ROIS_host ==
  HostBatch(nonlinear_filter, "u8", PLN1, BatchShapes, "one")
nonlinear_filter_u8_pln1_ROID_host ==
  HostBatch(nonlinear_filter, "u8", PLN1, BatchShapes, "each")
nonlinear_filter_u8_pln3_single_host ==
  HostStagedPlain(nonlinear_filter, "u8", PLN3)
  \cup HostRoi(nonlinear_filter, "u8", PLN3)
nonlinear_filter_u8_pln3_batch_host ==
  HostBatch(nonlinear_filter, "u8", PLN3, BatchShapes, "whole")
nonlinear_filter_u8_pln3_ROIS_host ==
  HostBatch(nonlinear_filter, "u8", PLN3, BatchShapes, "one")
nonlinear_filter_u8_pln3_ROID_host ==
  HostBatch(nonlinear_filter, "u8", PLN3, BatchShapes, "each")
nonlinear_filter_u8_pkd3_single_host ==
  HostStagedPlain(nonlinear_filter, "u8", PKD3)
  \cup HostRoi(nonlinear_filter, "u8", PKD3)
nonlinear_filter_u8_pkd3_batch_host ==
  HostBatch(nonlinear_filter, "u8", PKD3, BatchShapes, "whole")
nonlinear_filter_u8_pkd3_ROIS_host ==
  HostBatch(nonlinear_filter, "u8", PKD3, BatchShapes, "one")
nonlinear_filter_u8_pkd3_ROID_host ==
  HostBatch(nonlinear_filter, "u8", PKD3, BatchShapes, "each")

nonlinear_filter_functions == UNION {
  nonlinear_filter_u8_pln1_single_gpu, nonlinear_filter_u8_pln1_batch_gpu,
  nonlinear_filter_u8_pln1_ROIS_gpu, nonlinear_filter_u8_pln1_ROID_gpu,
  nonlinear_filter_u8_pln3_single_gpu, nonlinear_filter_u8_pln3_batch_gpu,
  nonlinear_filter_u8_pln3_ROIS_gpu, nonlinear_filter_u8_pln3_ROID_gpu,
  nonlinear_filter_u8_pkd3_single_gpu, nonlinear_filter_u8_pkd3_batch_gpu,
  nonlinear_filter_u8_pkd3_ROIS_gpu, nonlinear_filter_u8_pkd3_ROID_gpu,
  nonlinear_filter_u8_pln1_single_host, nonlinear_filter_u8_pln1_batch_host,
  nonlinear_filter_u8_pln1_ROIS_host, nonlinear_filter_u8_pln1_ROID_host,
  nonlinear_filter_u8_pln3_single_host, nonlinear_filter_u8_pln3_batch_host,
  nonlinear_filter_u8_pln3_ROIS_host, nonlinear_filter_u8_pln3_ROID_host,
  nonlinear_filter_u8_pkd3_single_host, nonlinear_filter_u8_pkd3_batch_host,
  nonlinear_filter_u8_pkd3_ROIS_host, nonlinear_filter_u8_pkd3_ROID_host}
-----------------------------------------------------------------------------
non_max_suppression ==
  Operation("non_max_suppression", {"dstPtr", "srcPtr"},
            <<P("kernelSize", "uintArr0")>>,
            [OCL |-> non_max_suppression_cl, HIP |-> non_max_suppression_hip],
            [OCL |-> non_max_suppression_cl_batch,
             HIP |-> non_max_suppression_hip_batch])

non_max_suppression_u8_pln1_single_gpu ==
  GpuSingle(non_max_suppression, "u8", PLN1)
non_max_suppression_u8_pln1_batch_gpu ==
  GpuBatch(non_max_suppression, "u8", PLN1, BatchShapes, "whole")
non_max_suppression_u8_pln1_ROIS_gpu ==
  GpuBatch(non_max_suppression, "u8", PLN1, BatchShapes, "one")
non_max_suppression_u8_pln1_ROID_gpu ==
  GpuBatch(non_max_suppression, "u8", PLN1, BatchShapes, "each")
non_max_suppression_u8_pln3_single_gpu ==
  GpuSingle(non_max_suppression, "u8", PLN3)
non_max_suppression_u8_pln3_batch_gpu ==
  GpuBatch(non_max_suppression, "u8", PLN3, BatchShapes, "whole")
non_max_suppression_u8_pln3_ROIS_gpu ==
  GpuBatch(non_max_suppression, "u8", PLN3, BatchShapes, "one")
non_max_suppression_u8_pln3_ROID_gpu ==
  GpuBatch(non_max_suppression, "u8", PLN3, BatchShapes, "each")
non_max_suppression_u8_pkd3_single_gpu ==
  GpuSingle(non_max_suppression, "u8", PKD3)
non_max_suppression_u8_pkd3_batch_gpu ==
  GpuBatch(non_max_suppression, "u8", PKD3, BatchShapes, "whole")
non_max_suppression_u8_pkd3_ROIS_gpu ==
  GpuBatch(non_max_suppression, "u8", PKD3, BatchShapes, "one")
non_max_suppression_u8_pkd3_ROID_gpu ==
  GpuBatch(non_max_suppression, "u8", PKD3, BatchShapes, "each")
non_max_suppression_u8_pln1_single_host ==
  HostSingle(non_max_suppression, "u8", PLN1)
non_max_suppression_u8_pln1_batch_host ==
  HostBatch(non_max_suppression, "u8", PLN1, BatchShapes, "whole")
non_max_suppression_u8_pln1_ROIS_host ==
  HostBatch(non_max_suppression, "u8", PLN1, BatchShapes, "one")
non_max_suppression_u8_pln1_ROID_host ==
  HostBatch(non_max_suppression, "u8", PLN1, BatchShapes, "each")
non_max_suppression_u8_pln3_single_host ==
  HostSingle(non_max_suppression, "u8", PLN3)
non_max_suppression_u8_pln3_batch_host ==
  HostBatch(non_max_suppression, "u8", PLN3, BatchShapes, "whole")
non_max_suppression_u8_pln3_ROIS_host ==
  HostBatch(non_max_suppression, "u8", PLN3, BatchShapes, "one")
non_max_suppression_u8_pln3_ROID_host ==
  HostBatch(non_max_suppression, "u8", PLN3, BatchShapes, "each")
non_max_suppression_u8_pkd3_single_host ==
  HostSingle(non_max_suppression, "u8", PKD3)
non_max_suppression_u8_pkd3_batch_host ==
  HostBatch(non_max_suppression, "u8", PKD3, BatchShapes, "whole")
non_max_suppression_u8_pkd3_ROIS_host ==
  HostBatch(non_max_suppression, "u8", PKD3, BatchShapes, "one")
non_max_suppression_u8_pkd3_ROID_host ==
  HostBatch(non_max_suppression, "u8", PKD3, BatchShapes, "each")

non_max_suppression_functions == UNION {
  non_max_suppression_u8_pln1_single_gpu,
  non_max_suppression_u8_pln1_batch_gpu, non_max_suppression_u8_pln1_ROIS_gpu,
  non_max_suppression_u8_pln1_ROID_gpu, non_max_suppression_u8_pln3_single_gpu,
  non_max_suppression_u8_pln3_batch_gpu, non_max_suppression_u8_pln3_ROIS_gpu,
  non_max_suppression_u8_pln3_ROID_gpu, non_max_suppression_u8_pkd3_single_gpu,
  non_max_suppression_u8_pkd3_batch_gpu, non_max_suppression_u8_pkd3_ROIS_gpu,
  non_max_suppression_u8_pkd3_ROID_gpu,
  non_max_suppression_u8_pln1_single_host,
  non_max_suppression_u8_pln1_batch_host,
  non_max_suppression_u8_pln1_ROIS_host, non_max_suppression_u8_pln1_ROID_host,
  non_max_suppression_u8_pln3_single_host,
  non_max_suppression_u8_pln3_batch_host,
  non_max_suppression_u8_pln3_ROIS_host, non_max_suppression_u8_pln3_ROID_host,
  non_max_suppression_u8_pkd3_single_host,
  non_max_suppression_u8_pkd3_batch_host,
  non_max_suppression_u8_pkd3_ROIS_host, non_max_suppression_u8_pkd3_ROID_host}
-----------------------------------------------------------------------------
sobel_filter ==
  Operation("sobel_filter", {"dstPtr", "srcPtr"},
            <<P("sobleType", "uintArr0")>>,
            [OCL |-> sobel_filter_cl, HIP |-> sobel_filter_hip],
            [OCL |-> sobel_filter_cl_batch, HIP |-> sobel_filter_hip_batch])

sobel_filter_u8_pln1_single_gpu == GpuSingle(sobel_filter, "u8", PLN1)
sobel_filter_u8_pln1_batch_gpu ==
  GpuBatch(sobel_filter, "u8", PLN1, BatchShapes, "whole")
sobel_filter_u8_pln1_ROIS_gpu ==
  GpuBatch(sobel_filter, "u8", PLN1, BatchShapes, "one")
sobel_filter_u8_pln1_ROID_gpu ==
  GpuBatch(sobel_filter, "u8", PLN1, BatchShapes, "each")
sobel_filter_u8_pln3_single_gpu == GpuSingle(sobel_filter, "u8", PLN3)
sobel_filter_u8_pln3_batch_gpu ==
  GpuBatch(sobel_filter, "u8", PLN3, BatchShapes, "whole")
sobel_filter_u8_pln3_ROIS_gpu ==
  GpuBatch(sobel_filter, "u8", PLN3, BatchShapes, "one")
sobel_filter_u8_pln3_ROID_gpu ==
  GpuBatch(sobel_filter, "u8", PLN3, BatchShapes, "each")
sobel_filter_u8_pkd3_single_gpu == GpuSingle(sobel_filter, "u8", PKD3)
sobel_filter_u8_pkd3_batch_gpu ==
  GpuBatch(sobel_filter, "u8", PKD3, BatchShapes, "whole")
sobel_filter_u8_pkd3_ROIS_gpu ==
  GpuBatch(sobel_filter, "u8", PKD3, BatchShapes, "one")
sobel_filter_u8_pkd3_ROID_gpu ==
  GpuBatch(sobel_filter, "u8", PKD3, BatchShapes, "each")
sobel_filter_u8_pln1_single_host == HostSingle(sobel_filter, "u8", PLN1)
sobel_filter_u8_pln1_batch_host ==
  HostBatch(sobel_filter, "u8", PLN1, BatchShapes, "whole")
sobel_filter_u8_pln1_ROIS_host ==
  HostBatch(sobel_filter, "u8", PLN1, BatchShapes, "one")
sobel_filter_u8_pln1_ROID_host ==
  HostBatch(sobel_filter, "u8", PLN1, BatchShapes, "each")
sobel_filter_u8_pln3_single_host == HostSingle(sobel_filter, "u8", PLN3)
sobel_filter_u8_pln3_batch_host ==
  HostBatch(sobel_filter, "u8", PLN3, BatchShapes, "whole")
sobel_filter_u8_pln3_ROIS_host ==
  HostBatch(sobel_filter, "u8", PLN3, BatchShapes, "one")
sobel_filter_u8_pln3_ROID_host ==
  HostBatch(sobel_filter, "u8", PLN3, BatchShapes, "each")
sobel_filter_u8_pkd3_single_host == HostSingle(sobel_filter, "u8", PKD3)
sobel_filter_u8_pkd3_batch_host ==
  HostBatch(sobel_filter, "u8", PKD3, BatchShapes, "whole")
sobel_filter_u8_pkd3_ROIS_host ==
  HostBatch(sobel_filter, "u8", PKD3, BatchShapes, "one")
sobel_filter_u8_pkd3_ROID_host ==
  HostBatch(sobel_filter, "u8", PKD3, BatchShapes, "each")

sobel_filter_functions == UNION {
  sobel_filter_u8_pln1_single_gpu, sobel_filter_u8_pln1_batch_gpu,
  sobel_filter_u8_pln1_ROIS_gpu, sobel_filter_u8_pln1_ROID_gpu,
  sobel_filter_u8_pln3_single_gpu, sobel_filter_u8_pln3_batch_gpu,
  sobel_filter_u8_pln3_ROIS_gpu, sobel_filter_u8_pln3_ROID_gpu,
  sobel_filter_u8_pkd3_single_gpu, sobel_filter_u8_pkd3_batch_gpu,
  sobel_filter_u8_pkd3_ROIS_gpu, sobel_filter_u8_pkd3_ROID_gpu,
  sobel_filter_u8_pln1_single_host, sobel_filter_u8_pln1_batch_host,
  sobel_filter_u8_pln1_ROIS_host, sobel_filter_u8_pln1_ROID_host,
  sobel_filter_u8_pln3_single_host, sobel_filter_u8_pln3_batch_host,
  sobel_filter_u8_pln3_ROIS_host, sobel_filter_u8_pln3_ROID_host,
  sobel_filter_u8_pkd3_single_host, sobel_filter_u8_pkd3_batch_host,
  sobel_filter_u8_pkd3_ROIS_host, sobel_filter_u8_pkd3_ROID_host}
-----------------------------------------------------------------------------
box_filter ==
  Operation("box_filter", {"dstPtr", "srcPtr"},
            <<P("kernelSize", "uintArr0")>>,
            [OCL |-> box_filter_cl, HIP |-> box_filter_hip],
            [OCL |-> box_filter_cl_batch, HIP |-> box_filter_hip_batch])

box_filter_u8_pln1_single_gpu == GpuSingle(box_filter, "u8", PLN1)
box_filter_u8_pln1_batch_gpu ==
  GpuBatch(box_filter, "u8", PLN1, BatchShapes, "whole")
box_filter_u8_pln1_ROIS_gpu ==
  GpuBatch(box_filter, "u8", PLN1, BatchShapes, "one")
box_filter_u8_pln1_ROID_gpu ==
  GpuBatch(box_filter, "u8", PLN1, BatchShapes, "each")
box_filter_u8_pln3_single_gpu == GpuSingle(box_filter, "u8", PLN3)
box_filter_u8_pln3_batch_gpu ==
  GpuBatch(box_filter, "u8", PLN3, BatchShapes, "whole")
box_filter_u8_pln3_ROIS_gpu ==
  GpuBatch(box_filter, "u8", PLN3, BatchShapes, "one")
box_filter_u8_pln3_ROID_gpu ==
  GpuBatch(box_filter, "u8", PLN3, BatchShapes, "each")
box_filter_u8_pkd3_single_gpu == GpuSingle(box_filter, "u8", PKD3)
box_filter_u8_pkd3_batch_gpu ==
  GpuBatch(box_filter, "u8", PKD3, BatchShapes, "whole")
box_filter_u8_pkd3_ROIS_gpu ==
  GpuBatch(box_filter, "u8", PKD3, BatchShapes, "one")
box_filter_u8_pkd3_ROID_gpu ==
  GpuBatch(box_filter, "u8", PKD3, BatchShapes, "each")
box_filter_u8_pln1_single_host == HostSingle(box_filter, "u8", PLN1)
box_filter_u8_pln1_batch_host ==
  HostBatch(box_filter, "u8", PLN1, BatchShapes, "whole")
box_filter_u8_pln1_ROIS_host ==
  HostBatch(box_filter, "u8", PLN1, BatchShapes, "one")
box_filter_u8_pln1_ROID_host ==
  HostBatch(box_filter, "u8", PLN1, BatchShapes, "each")
box_filter_u8_pln3_single_host == HostSingle(box_filter, "u8", PLN3)
box_filter_u8_pln3_batch_host ==
  HostBatch(box_filter, "u8", PLN3, BatchShapes, "whole")
box_filter_u8_pln3_ROIS_host ==
  HostBatch(box_filter, "u8", PLN3, BatchShapes, "one")
box_filter_u8_pln3_ROID_host ==
  HostBatch(box_filter, "u8", PLN3, BatchShapes, "each")
box_filter_u8_pkd3_single_host == HostSingle(box_filter, "u8", PKD3)
box_filter_u8_pkd3_batch_host ==
  HostBatch(box_filter, "u8", PKD3, BatchShapes, "whole")
box_filter_u8_pkd3_ROIS_host ==
  HostBatch(box_filter, "u8", PKD3, BatchShapes, "one")
box_filter_u8_pkd3_ROID_host ==
  HostBatch(box_filter, "u8", PKD3, BatchShapes, "each")

box_filter_functions == UNION {
  box_filter_u8_pln1_single_gpu, box_filter_u8_pln1_batch_gpu,
  box_filter_u8_pln1_ROIS_gpu, box_filter_u8_pln1_ROID_gpu,
  box_filter_u8_pln3_single_gpu, box_filter_u8_pln3_batch_gpu,
  box_filter_u8_pln3_ROIS_gpu, box_filter_u8_pln3_ROID_gpu,
  box_filter_u8_pkd3_single_gpu, box_filter_u8_pkd3_batch_gpu,
  box_filter_u8_pkd3_ROIS_gpu, box_filter_u8_pkd3_ROID_gpu,
  box_filter_u8_pln1_single_host, box_filter_u8_pln1_batch_host,
  box_filter_u8_pln1_ROIS_host, box_filter_u8_pln1_ROID_host,
  box_filter_u8_pln3_single_host, box_filter_u8_pln3_batch_host,
  box_filter_u8_pln3_ROIS_host, box_filter_u8_pln3_ROID_host,
  box_filter_u8_pkd3_single_host, box_filter_u8_pkd3_batch_host,
  box_filter_u8_pkd3_ROIS_host, box_filter_u8_pkd3_ROID_host}
-----------------------------------------------------------------------------
bilateral_filter ==
  Forgetting({"sigmaI", "sigmaS"},
    Operation("bilateral_filter", {"dstPtr", "srcPtr"},
              <<P("kernelSize", "uintArr0")>>,
              [OCL |-> bilateral_filter_cl, HIP |-> bilateral_filter_hip],
              [OCL |-> bilateral_filter_cl_batch,
               HIP |-> bilateral_filter_hip_batch]))

bilateral_filter_u8_pln1_single_gpu == GpuSingle(bilateral_filter, "u8", PLN1)
bilateral_filter_u8_pln1_batch_gpu ==
  GpuBatch(bilateral_filter, "u8", PLN1, BatchShapes, "whole")
bilateral_filter_u8_pln1_ROIS_gpu ==
  GpuBatch(bilateral_filter, "u8", PLN1, BatchShapes, "one")
bilateral_filter_u8_pln1_ROID_gpu ==
  GpuBatch(bilateral_filter, "u8", PLN1, BatchShapes, "each")
bilateral_filter_u8_pln3_single_gpu == GpuSingle(bilateral_filter, "u8", PLN3)
bilateral_filter_u8_pln3_batch_gpu ==
  GpuBatch(bilateral_filter, "u8", PLN3, BatchShapes, "whole")
bilateral_filter_u8_pln3_ROIS_gpu ==
  GpuBatch(bilateral_filter, "u8", PLN3, BatchShapes, "one")
bilateral_filter_u8_pln3_ROID_gpu ==
  GpuBatch(bilateral_filter, "u8", PLN3, BatchShapes, "each")
bilateral_filter_u8_pkd3_single_gpu == GpuSingle(bilateral_filter, "u8", PKD3)
bilateral_filter_u8_pkd3_batch_gpu ==
  GpuBatch(bilateral_filter, "u8", PKD3, BatchShapes, "whole")
bilateral_filter_u8_pkd3_ROIS_gpu ==
  GpuBatch(bilateral_filter, "u8", PKD3, BatchShapes, "one")
bilateral_filter_u8_pkd3_ROID_gpu ==
  GpuBatch(bilateral_filter, "u8", PKD3, BatchShapes, "each")

bilateral_filter_functions == UNION {
  bilateral_filter_u8_pln1_single_gpu, bilateral_filter_u8_pln1_batch_gpu,
  bilateral_filter_u8_pln1_ROIS_gpu, bilateral_filter_u8_pln1_ROID_gpu,
  bilateral_filter_u8_pln3_single_gpu, bilateral_filter_u8_pln3_batch_gpu,
  bilateral_filter_u8_pln3_ROIS_gpu, bilateral_filter_u8_pln3_ROID_gpu,
  bilateral_filter_u8_pkd3_single_gpu, bilateral_filter_u8_pkd3_batch_gpu,
  bilateral_filter_u8_pkd3_ROIS_gpu, bilateral_filter_u8_pkd3_ROID_gpu}
-----------------------------------------------------------------------------
custom_convolution ==
  ThreePlanes(
    Operation("custom_convolution",
              {"dstPtr", "kernel", "kernelSize", "srcPtr"},
              <<>>,
              [OCL |-> custom_convolution_cl, HIP |-> Nothing],
              [OCL |-> custom_convolution_cl_batch,
               HIP |-> custom_convolution_hip_batch]))

custom_convolution_u8_pln1_gpu == GpuPlain(custom_convolution, "u8", PLN1)
custom_convolution_u8_pln1_batchPD_gpu ==
  GpuBatch(custom_convolution, "u8", PLN1, {"PD"}, "whole")
custom_convolution_u8_pln3_gpu == GpuPlain(custom_convolution, "u8", PLN3)
custom_convolution_u8_pln3_batchPD_gpu ==
  GpuBatch(custom_convolution, "u8", PLN3, {"PD"}, "whole")
custom_convolution_u8_pkd3_gpu == GpuPlain(custom_convolution, "u8", PKD3)
custom_convolution_u8_pkd3_batchPD_gpu ==
  GpuBatch(custom_convolution, "u8", PKD3, {"PD"}, "whole")
custom_convolution_u8_pln1_host == HostPlain(custom_convolution, "u8", PLN1)
custom_convolution_u8_pln1_batchPD_host ==
  HostBatch(custom_convolution, "u8", PLN1, {"PD"}, "whole")
custom_convolution_u8_pln3_host == HostPlain(custom_convolution, "u8", PLN3)
custom_convolution_u8_pln3_batchPD_host ==
  HostBatch(custom_convolution, "u8", PLN3, {"PD"}, "whole")
custom_convolution_u8_pkd3_host == HostPlain(custom_convolution, "u8", PKD3)
custom_convolution_u8_pkd3_batchPD_host ==
  HostBatch(custom_convolution, "u8", PKD3, {"PD"}, "whole")

custom_convolution_functions == UNION {
  custom_convolution_u8_pln1_gpu, custom_convolution_u8_pln1_batchPD_gpu,
  custom_convolution_u8_pln3_gpu, custom_convolution_u8_pln3_batchPD_gpu,
  custom_convolution_u8_pkd3_gpu, custom_convolution_u8_pkd3_batchPD_gpu,
  custom_convolution_u8_pln1_host, custom_convolution_u8_pln1_batchPD_host,
  custom_convolution_u8_pln3_host, custom_convolution_u8_pln3_batchPD_host,
  custom_convolution_u8_pkd3_host, custom_convolution_u8_pkd3_batchPD_host}
-----------------------------------------------------------------------------
FilterOperationsFunctions ==
  UNION {gaussian_filter_functions, median_filter_functions,
  nonlinear_filter_functions, non_max_suppression_functions,
  sobel_filter_functions, box_filter_functions, bilateral_filter_functions,
  custom_convolution_functions}
=============================================================================
