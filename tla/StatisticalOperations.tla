----------------------- MODULE StatisticalOperations ------------------------
(***************************************************************************)
(* The entry points of the statistical operations                          *)
(* (rppi_statistical_operations.cpp):                                      *)
(* for each operation its record, its helpers, one definition for each     *)
(* family of functions that the source keeps together, and their union.    *)
(***************************************************************************)
EXTENDS EntryPointShapes, OclWrappers, HipWrappers
-----------------------------------------------------------------------------
min ==
  Operation("min", {"dstPtr", "srcPtr1", "srcPtr2"},
            <<>>,
            [OCL |-> min_cl, HIP |-> min_hip],
            [OCL |-> min_cl_batch, HIP |-> min_hip_batch])

min_u8_pln1_single_gpu == GpuSingle(min, "u8", PLN1)
min_u8_pln1_batch_gpu == GpuBatch(min, "u8", PLN1, BatchShapes, "whole")
min_u8_pln1_ROIS_gpu == GpuBatch(min, "u8", PLN1, BatchShapes, "one")
min_u8_pln1_ROID_gpu == GpuBatch(min, "u8", PLN1, BatchShapes, "each")
min_u8_pln3_single_gpu == GpuSingle(min, "u8", PLN3)
min_u8_pln3_batch_gpu == GpuBatch(min, "u8", PLN3, BatchShapes, "whole")
min_u8_pln3_ROIS_gpu == GpuBatch(min, "u8", PLN3, BatchShapes, "one")
min_u8_pln3_ROID_gpu == GpuBatch(min, "u8", PLN3, BatchShapes, "each")
min_u8_pkd3_single_gpu == GpuSingle(min, "u8", PKD3)
min_u8_pkd3_batch_gpu == GpuBatch(min, "u8", PKD3, BatchShapes, "whole")
min_u8_pkd3_ROIS_gpu == GpuBatch(min, "u8", PKD3, BatchShapes, "one")
min_u8_pkd3_ROID_gpu == GpuBatch(min, "u8", PKD3, BatchShapes, "each")
min_u8_pln1_single_host == HostSingle(min, "u8", PLN1)
min_u8_pln1_batch_host == HostBatch(min, "u8", PLN1, BatchShapes, "whole")
min_u8_pln1_ROIS_host == HostBatch(min, "u8", PLN1, BatchShapes, "one")
min_u8_pln1_ROID_host == HostBatch(min, "u8", PLN1, BatchShapes, "each")
min_u8_pln3_single_host == HostSingle(min, "u8", PLN3)
min_u8_pln3_batch_host == HostBatch(min, "u8", PLN3, BatchShapes, "whole")
min_u8_pln3_ROIS_host == HostBatch(min, "u8", PLN3, BatchShapes, "one")
min_u8_pln3_ROID_host == HostBatch(min, "u8", PLN3, BatchShapes, "each")
min_u8_pkd3_single_host == HostSingle(min, "u8", PKD3)
min_u8_pkd3_batch_host == HostBatch(min, "u8", PKD3, BatchShapes, "whole")
min_u8_pkd3_ROIS_host == HostBatch(min, "u8", PKD3, BatchShapes, "one")
min_u8_pkd3_ROID_host == HostBatch(min, "u8", PKD3, BatchShapes, "each")

min_functions == UNION {
  min_u8_pln1_single_gpu, min_u8_pln1_batch_gpu, min_u8_pln1_ROIS_gpu,
  min_u8_pln1_ROID_gpu, min_u8_pln3_single_gpu, min_u8_pln3_batch_gpu,
  min_u8_pln3_ROIS_gpu, min_u8_pln3_ROID_gpu, min_u8_pkd3_single_gpu,
  min_u8_pkd3_batch_gpu, min_u8_pkd3_ROIS_gpu, min_u8_pkd3_ROID_gpu,
  min_u8_pln1_single_host, min_u8_pln1_batch_host, min_u8_pln1_ROIS_host,
  min_u8_pln1_ROID_host, min_u8_pln3_single_host, min_u8_pln3_batch_host,
  min_u8_pln3_ROIS_host, min_u8_pln3_ROID_host, min_u8_pkd3_single_host,
  min_u8_pkd3_batch_host, min_u8_pkd3_ROIS_host, min_u8_pkd3_ROID_host}
-----------------------------------------------------------------------------
max ==
  Operation("max", {"dstPtr", "srcPtr1", "srcPtr2"},
            <<>>,
            [OCL |-> max_cl, HIP |-> max_hip],
            [OCL |-> max_cl_batch, HIP |-> max_hip_batch])

max_u8_pln1_single_gpu == GpuSingle(max, "u8", PLN1)
max_u8_pln1_batch_gpu == GpuBatch(max, "u8", PLN1, BatchShapes, "whole")
max_u8_pln1_ROIS_gpu == GpuBatch(max, "u8", PLN1, BatchShapes, "one")
max_u8_pln1_ROID_gpu == GpuBatch(max, "u8", PLN1, BatchShapes, "each")
max_u8_pln3_single_gpu == GpuSingle(max, "u8", PLN3)
max_u8_pln3_batch_gpu == GpuBatch(max, "u8", PLN3, BatchShapes, "whole")
max_u8_pln3_ROIS_gpu == GpuBatch(max, "u8", PLN3, BatchShapes, "one")
max_u8_pln3_ROID_gpu == GpuBatch(max, "u8", PLN3, BatchShapes, "each")
max_u8_pkd3_single_gpu == GpuSingle(max, "u8", PKD3)
max_u8_pkd3_batch_gpu == GpuBatch(max, "u8", PKD3, BatchShapes, "whole")
max_u8_pkd3_ROIS_gpu == GpuBatch(max, "u8", PKD3, BatchShapes, "one")
max_u8_pkd3_ROID_gpu == GpuBatch(max, "u8", PKD3, BatchShapes, "each")
max_u8_pln1_single_host == HostSingle(max, "u8", PLN1)
max_u8_pln1_batch_host == HostBatch(max, "u8", PLN1, BatchShapes, "whole")
max_u8_pln1_ROIS_host == HostBatch(max, "u8", PLN1, BatchShapes, "one")
max_u8_pln1_ROID_host == HostBatch(max, "u8", PLN1, BatchShapes, "each")
max_u8_pln3_single_host == HostSingle(max, "u8", PLN3)
max_u8_pln3_batch_host == HostBatch(max, "u8", PLN3, BatchShapes, "whole")
max_u8_pln3_ROIS_host == HostBatch(max, "u8", PLN3, BatchShapes, "one")
max_u8_pln3_ROID_host == HostBatch(max, "u8", PLN3, BatchShapes, "each")
max_u8_pkd3_single_host == HostSingle(max, "u8", PKD3)
max_u8_pkd3_batch_host == HostBatch(max, "u8", PKD3, BatchShapes, "whole")
max_u8_pkd3_ROIS_host == HostBatch(max, "u8", PKD3, BatchShapes, "one")
max_u8_pkd3_ROID_host == HostBatch(max, "u8", PKD3, BatchShapes, "each")

max_functions == UNION {
  max_u8_pln1_single_gpu, max_u8_pln1_batch_gpu, max_u8_pln1_ROIS_gpu,
  max_u8_pln1_ROID_gpu, max_u8_pln3_single_gpu, max_u8_pln3_batch_gpu,
  max_u8_pln3_ROIS_gpu, max_u8_pln3_ROID_gpu, max_u8_pkd3_single_gpu,
  max_u8_pkd3_batch_gpu, max_u8_pkd3_ROIS_gpu, max_u8_pkd3_ROID_gpu,
  max_u8_pln1_single_host, max_u8_pln1_batch_host, max_u8_pln1_ROIS_host,
  max_u8_pln1_ROID_host, max_u8_pln3_single_host, max_u8_pln3_batch_host,
  max_u8_pln3_ROIS_host, max_u8_pln3_ROID_host, max_u8_pkd3_single_host,
  max_u8_pkd3_batch_host, max_u8_pkd3_ROIS_host, max_u8_pkd3_ROID_host}
-----------------------------------------------------------------------------
histogram_equalization ==
  Operation("histogram_equalization", {"dstPtr", "srcPtr"},
            <<>>,
            [OCL |-> histogram_balance_cl, HIP |-> histogram_balance_hip],
            [OCL |-> histogram_balance_cl_batch,
             HIP |-> histogram_balance_hip_batch])

histogram_equalization_u8_pln1_gpu ==
  GpuPlain(histogram_equalization, "u8", PLN1)
histogram_equalization_u8_pln1_batch_gpu ==
  GpuBatch(histogram_equalization, "u8", PLN1, BatchShapes, "none")
histogram_equalization_u8_pln3_gpu ==
  GpuPlain(histogram_equalization, "u8", PLN3)
histogram_equalization_u8_pln3_batch_gpu ==
  GpuBatch(histogram_equalization, "u8", PLN3, BatchShapes, "none")
histogram_equalization_u8_pkd3_gpu ==
  GpuPlain(histogram_equalization, "u8", PKD3)
histogram_equalization_u8_pkd3_batch_gpu ==
  GpuBatch(histogram_equalization, "u8", PKD3, BatchShapes, "none")
histogram_equalization_u8_pln1_host ==
  HostPlain(histogram_equalization, "u8", PLN1)
histogram_equalization_u8_pln1_batch_host ==
  HostBatch(histogram_equalization, "u8", PLN1, BatchShapes, "none")
histogram_equalization_u8_pln3_host ==
  HostPlain(histogram_equalization, "u8", PLN3)
histogram_equalization_u8_pln3_batch_host ==
  HostBatch(histogram_equalization, "u8", PLN3, BatchShapes, "none")
histogram_equalization_u8_pkd3_host ==
  HostPlain(histogram_equalization, "u8", PKD3)
histogram_equalization_u8_pkd3_batch_host ==
  HostBatch(histogram_equalization, "u8", PKD3, BatchShapes, "none")

histogram_equalization_functions == UNION {
  histogram_equalization_u8_pln1_gpu, histogram_equalization_u8_pln1_batch_gpu,
  histogram_equalization_u8_pln3_gpu, histogram_equalization_u8_pln3_batch_gpu,
  histogram_equalization_u8_pkd3_gpu, histogram_equalization_u8_pkd3_batch_gpu,
  histogram_equalization_u8_pln1_host,
  histogram_equalization_u8_pln1_batch_host,
  histogram_equalization_u8_pln3_host,
  histogram_equalization_u8_pln3_batch_host,
  histogram_equalization_u8_pkd3_host,
  histogram_equalization_u8_pkd3_batch_host}
-----------------------------------------------------------------------------
thresholding ==
  Operation("thresholding", {"dstPtr", "srcPtr"},
            <<P("minThreshold", "ucharArr0"), P("maxThreshold", "ucharArr1")>>,
            [OCL |-> thresholding_cl, HIP |-> thresholding_hip],
            [OCL |-> thresholding_cl_batch, HIP |-> thresholding_hip_batch])

thresholding_u8_pln1_single_gpu == GpuSingle(thresholding, "u8", PLN1)
thresholding_u8_pln1_batch_gpu ==
  GpuBatch(thresholding, "u8", PLN1, BatchShapes, "whole")
thresholding_u8_pln1_ROIS_gpu ==
  GpuBatch(thresholding, "u8", PLN1, BatchShapes, "one")
thresholding_u8_pln1_ROID_gpu ==
  GpuBatch(thresholding, "u8", PLN1, BatchShapes, "each")
thresholding_u8_pln3_single_gpu == GpuSingle(thresholding, "u8", PLN3)
thresholding_u8_pln3_batch_gpu ==
  GpuBatch(thresholding, "u8", PLN3, BatchShapes, "whole")
thresholding_u8_pln3_ROIS_gpu ==
  GpuBatch(thresholding, "u8", PLN3, BatchShapes, "one")
thresholding_u8_pln3_ROID_gpu ==
  GpuBatch(thresholding, "u8", PLN3, BatchShapes, "each")
thresholding_u8_pkd3_single_gpu == GpuSingle(thresholding, "u8", PKD3)
thresholding_u8_pkd3_batch_gpu ==
  GpuBatch(thresholding, "u8", PKD3, BatchShapes, "whole")
thresholding_u8_pkd3_ROIS_gpu ==
  GpuBatch(thresholding, "u8", PKD3, BatchShapes, "one")
thresholding_u8_pkd3_ROID_gpu ==
  GpuBatch(thresholding, "u8", PKD3, BatchShapes, "each")
thresholding_u8_pln1_single_host == HostSingle(thresholding, "u8", PLN1)
thresholding_u8_pln1_batch_host ==
  HostBatch(thresholding, "u8", PLN1, BatchShapes, "whole")
thresholding_u8_pln1_ROIS_host ==
  HostBatch(thresholding, "u8", PLN1, BatchShapes, "one")
thresholding_u8_pln1_ROID_host ==
  HostBatch(thresholding, "u8", PLN1, BatchShapes, "each")
thresholding_u8_pln3_single_host == HostSingle(thresholding, "u8", PLN3)
thresholding_u8_pln3_batch_host ==
  HostBatch(thresholding, "u8", PLN3, BatchShapes, "whole")
thresholding_u8_pln3_ROIS_host ==
  HostBatch(thresholding, "u8", PLN3, BatchShapes, "one")
thresholding_u8_pln3_ROID_host ==
  HostBatch(thresholding, "u8", PLN3, BatchShapes, "each")
thresholding_u8_pkd3_single_host == HostSingle(thresholding, "u8", PKD3)
thresholding_u8_pkd3_batch_host ==
  HostBatch(thresholding, "u8", PKD3, BatchShapes, "whole")
thresholding_u8_pkd3_ROIS_host ==
  HostBatch(thresholding, "u8", PKD3, BatchShapes, "one")
thresholding_u8_pkd3_ROID_host ==
  HostBatch(thresholding, "u8", PKD3, BatchShapes, "each")

thresholding_functions == UNION {
  thresholding_u8_pln1_single_gpu, thresholding_u8_pln1_batch_gpu,
  thresholding_u8_pln1_ROIS_gpu, thresholding_u8_pln1_ROID_gpu,
  thresholding_u8_pln3_single_gpu, thresholding_u8_pln3_batch_gpu,
  thresholding_u8_pln3_ROIS_gpu, thresholding_u8_pln3_ROID_gpu,
  thresholding_u8_pkd3_single_gpu, thresholding_u8_pkd3_batch_gpu,
  thresholding_u8_pkd3_ROIS_gpu, thresholding_u8_pkd3_ROID_gpu,
  thresholding_u8_pln1_single_host, thresholding_u8_pln1_batch_host,
  thresholding_u8_pln1_ROIS_host, thresholding_u8_pln1_ROID_host,
  thresholding_u8_pln3_single_host, thresholding_u8_pln3_batch_host,
  thresholding_u8_pln3_ROIS_host, thresholding_u8_pln3_ROID_host,
  thresholding_u8_pkd3_single_host, thresholding_u8_pkd3_batch_host,
  thresholding_u8_pkd3_ROIS_host, thresholding_u8_pkd3_ROID_host}
-----------------------------------------------------------------------------
mean_stddev ==
  ThreePlanes(
    Operation("mean_stddev", {"mean", "srcPtr", "stddev"},
              <<>>,
              [OCL |-> mean_stddev_cl, HIP |-> mean_stddev_hip],
              [OCL |-> Nothing, HIP |-> Nothing]))

mean_stddev_u8_pln1_host == HostPlain(mean_stddev, "u8", PLN1)
mean_stddev_u8_pln3_host == HostPlain(mean_stddev, "u8", PLN3)
mean_stddev_u8_pkd3_host == HostPlain(mean_stddev, "u8", PKD3)
mean_stddev_u8_pln1_gpu == GpuPlain(mean_stddev, "u8", PLN1)
mean_stddev_u8_pln3_gpu == GpuPlain(mean_stddev, "u8", PLN3)
mean_stddev_u8_pkd3_gpu == GpuPlain(mean_stddev, "u8", PKD3)

mean_stddev_functions == UNION {
  mean_stddev_u8_pln1_host, mean_stddev_u8_pln3_host, mean_stddev_u8_pkd3_host,
  mean_stddev_u8_pln1_gpu, mean_stddev_u8_pln3_gpu, mean_stddev_u8_pkd3_gpu}
-----------------------------------------------------------------------------
min_max_loc ==
  ThreePlanes(
    Operation("min_max_loc", {"max", "maxLoc", "min", "minLoc", "srcPtr"},
              <<>>,
              [OCL |-> min_max_loc_cl, HIP |-> min_max_loc_hip],
              [OCL |-> Nothing, HIP |-> Nothing]))

min_max_loc_u8_pln1_host == HostPlain(min_max_loc, "u8", PLN1)
min_max_loc_u8_pln3_host == HostPlain(min_max_loc, "u8", PLN3)
min_max_loc_u8_pkd3_host == HostPlain(min_max_loc, "u8", PKD3)
min_max_loc_u8_pln1_gpu == GpuPlain(min_max_loc, "u8", PLN1)
min_max_loc_u8_pln3_gpu == GpuPlain(min_max_loc, "u8", PLN3)
min_max_loc_u8_pkd3_gpu == GpuPlain(min_max_loc, "u8", PKD3)

min_max_loc_functions == UNION {
  min_max_loc_u8_pln1_host, min_max_loc_u8_pln3_host, min_max_loc_u8_pkd3_host,
  min_max_loc_u8_pln1_gpu, min_max_loc_u8_pln3_gpu, min_max_loc_u8_pkd3_gpu}
-----------------------------------------------------------------------------
histogram ==
  ThreePlanes(
    Operation("histogram", {"bins", "outputHistogram", "srcPtr"},
              <<>>,
              [OCL |-> histogram_cl, HIP |-> Nothing],
              [OCL |-> Nothing, HIP |-> Nothing]))

histogram_u8_pln1_host == HostPlain(histogram, "u8", PLN1)
histogram_u8_pln3_host == HostPlain(histogram, "u8", PLN3)
histogram_u8_pkd3_host == HostPlain(histogram, "u8", PKD3)
histogram_u8_pln1_gpu == GpuPlain(histogram, "u8", PLN1)
histogram_u8_pln3_gpu == GpuPlain(histogram, "u8", PLN3)
histogram_u8_pkd3_gpu == GpuPlain(histogram, "u8", PKD3)

histogram_functions == UNION {
  histogram_u8_pln1_host, histogram_u8_pln3_host, histogram_u8_pkd3_host,
  histogram_u8_pln1_gpu, histogram_u8_pln3_gpu, histogram_u8_pkd3_gpu}
-----------------------------------------------------------------------------
integral ==
  Operation("integral", {"dstPtr", "srcPtr"},
            <<>>,
            [OCL |-> integral_cl, HIP |-> integral_hip],
            [OCL |-> integral_cl_batch, HIP |-> integral_hip_batch])

integral_u8_pln1_batch_gpu ==
  GpuBatch(integral, "u8", PLN1, {"PD", "PS"}, "none")
integral_u8_pln3_gpu == GpuPlain(integral, "u8", PLN3)
integral_u8_pln3_batch_gpu ==
  GpuBatch(integral, "u8", PLN3, BatchShapes, "none")
integral_u8_pkd3_gpu == GpuPlain(integral, "u8", PKD3)
integral_u8_pkd3_batch_gpu ==
  GpuBatch(integral, "u8", PKD3, BatchShapes, "none")
integral_u8_pln1_host == HostPlain(integral, "u8", PLN1)
integral_u8_pln1_batch_host ==
  HostBatch(integral, "u8", PLN1, BatchShapes, "none")
integral_u8_pln3_host == HostPlain(integral, "u8", PLN3)
integral_u8_pln3_batch_host ==
  HostBatch(integral, "u8", PLN3, BatchShapes, "none")
integral_u8_pkd3_host == HostPlain(integral, "u8", PKD3)
integral_u8_pkd3_batch_host ==
  HostBatch(integral, "u8", PKD3, BatchShapes, "none")

integral_functions == UNION {
  integral_u8_pln1_batch_gpu, integral_u8_pln3_gpu, integral_u8_pln3_batch_gpu,
  integral_u8_pkd3_gpu, integral_u8_pkd3_batch_gpu, integral_u8_pln1_host,
  integral_u8_pln1_batch_host, integral_u8_pln3_host,
  integral_u8_pln3_batch_host, integral_u8_pkd3_host,
  integral_u8_pkd3_batch_host}
-----------------------------------------------------------------------------
StatisticalOperationsFunctions ==
  UNION {min_functions, max_functions, histogram_equalization_functions,
  thresholding_functions, mean_stddev_functions, min_max_loc_functions,
  histogram_functions, integral_functions}
=============================================================================
