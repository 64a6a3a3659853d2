------------------------ MODULE AccumulateOperations ------------------------
(***************************************************************************)
(* The entry points of the accumulating operations                         *)
(* (rppi_arithmetic_operations.cpp, from accumulate on):                   *)
(* for each operation its record, its helpers, one definition for each     *)
(* family of functions that the source keeps together, and their union.    *)
(***************************************************************************)
EXTENDS EntryPointShapes, OclWrappers, HipWrappers
-----------------------------------------------------------------------------
accumulate ==
  Operation("accumulate", {"srcPtr1", "srcPtr2"},
            <<>>,
            [OCL |-> accumulate_cl, HIP |-> accumulate_hip],
            [OCL |-> accumulate_cl_batch, HIP |-> accumulate_hip_batch])

accumulate_u8_pln1_single_gpu == GpuSingle(accumulate, "u8", PLN1)
accumulate_u8_pln1_batch_gpu ==
  GpuBatch(accumulate, "u8", PLN1, BatchShapes, "whole")
accumulate_u8_pln1_ROIS_gpu ==
  GpuBatch(accumulate, "u8", PLN1, BatchShapes, "one")
accumulate_u8_pln1_ROID_gpu ==
  GpuBatch(accumulate, "u8", PLN1, BatchShapes, "each")
accumulate_u8_pln3_single_gpu == GpuSingle(accumulate, "u8", PLN3)
accumulate_u8_pln3_batch_gpu ==
  GpuBatch(accumulate, "u8", PLN3, BatchShapes, "whole")
accumulate_u8_pln3_ROIS_gpu ==
  GpuBatch(accumulate, "u8", PLN3, BatchShapes, "one")
accumulate_u8_pln3_ROID_gpu ==
  GpuBatch(accumulate, "u8", PLN3, BatchShapes, "each")
accumulate_u8_pkd3_single_gpu == GpuSingle(accumulate, "u8", PKD3)
accumulate_u8_pkd3_batch_gpu ==
  GpuBatch(accumulate, "u8", PKD3, BatchShapes, "whole")
accumulate_u8_pkd3_ROIS_gpu ==
  GpuBatch(accumulate, "u8", PKD3, BatchShapes, "one")
accumulate_u8_pkd3_ROID_gpu ==
  GpuBatch(accumulate, "u8", PKD3, BatchShapes, "each")
accumulate_u8_pln1_single_host == HostSingle(accumulate, "u8", PLN1)
accumulate_u8_pln1_batch_host ==
  HostBatch(accumulate, "u8", PLN1, BatchShapes, "whole")
accumulate_u8_pln1_ROIS_host ==
  HostBatch(accumulate, "u8", PLN1, BatchShapes, "one")
accumulate_u8_pln1_ROID_host ==
  HostBatch(accumulate, "u8", PLN1, BatchShapes, "each")
accumulate_u8_pln3_single_host == HostSingle(accumulate, "u8", PLN3)
accumulate_u8_pln3_batch_host ==
  HostBatch(accumulate, "u8", PLN3, BatchShapes, "whole")
accumulate_u8_pln3_ROIS_host ==
  HostBatch(accumulate, "u8", PLN3, BatchShapes, "one")
accumulate_u8_pln3_ROID_host ==
  HostBatch(accumulate, "u8", PLN3, BatchShapes, "each")
accumulate_u8_pkd3_single_host == HostSingle(accumulate, "u8", PKD3)
accumulate_u8_pkd3_batch_host ==
  HostBatch(accumulate, "u8", PKD3, BatchShapes, "whole")
accumulate_u8_pkd3_ROIS_host ==
  HostBatch(accumulate, "u8", PKD3, BatchShapes, "one")
accumulate_u8_pkd3_ROID_host ==
  HostBatch(accumulate, "u8", PKD3, BatchShapes, "each")

accumulate_functions == UNION {
  accumulate_u8_pln1_single_gpu, accumulate_u8_pln1_batch_gpu,
  accumulate_u8_pln1_ROIS_gpu, accumulate_u8_pln1_ROID_gpu,
  accumulate_u8_pln3_single_gpu, accumulate_u8_pln3_batch_gpu,
  accumulate_u8_pln3_ROIS_gpu, accumulate_u8_pln3_ROID_gpu,
  accumulate_u8_pkd3_single_gpu, accumulate_u8_pkd3_batch_gpu,
  accumulate_u8_pkd3_ROIS_gpu, accumulate_u8_pkd3_ROID_gpu,
  accumulate_u8_pln1_single_host, accumulate_u8_pln1_batch_host,
  accumulate_u8_pln1_ROIS_host, accumulate_u8_pln1_ROID_host,
  accumulate_u8_pln3_single_host, accumulate_u8_pln3_batch_host,
  accumulate_u8_pln3_ROIS_host, accumulate_u8_pln3_ROID_host,
  accumulate_u8_pkd3_single_host, accumulate_u8_pkd3_batch_host,
  accumulate_u8_pkd3_ROIS_host, accumulate_u8_pkd3_ROID_host}
-----------------------------------------------------------------------------
accumulate_weighted ==
  Operation("accumulate_weighted", {"srcPtr1", "srcPtr2"},
            <<P("alpha", "floatArr0")>>,
            [OCL |-> accumulate_weighted_cl, HIP |-> accumulate_weighted_hip],
            [OCL |-> accumulate_weighted_cl_batch,
             HIP |-> accumulate_weighted_hip_batch])

accumulate_weighted_u8_pln1_single_gpu ==
  GpuSingle(accumulate_weighted, "u8", PLN1)
accumulate_weighted_u8_pln1_batch_gpu ==
  GpuBatch(accumulate_weighted, "u8", PLN1, BatchShapes, "whole")
accumulate_weighted_u8_pln1_ROIS_gpu ==
  GpuBatch(accumulate_weighted, "u8", PLN1, BatchShapes, "one")
accumulate_weighted_u8_pln1_ROID_gpu ==
  GpuBatch(accumulate_weighted, "u8", PLN1, BatchShapes, "each")
accumulate_weighted_u8_pln3_single_gpu ==
  GpuSingle(accumulate_weighted, "u8", PLN3)
accumulate_weighted_u8_pln3_batch_gpu ==
  GpuBatch(accumulate_weighted, "u8", PLN3, BatchShapes, "whole")
accumulate_weighted_u8_pln3_ROIS_gpu ==
  GpuBatch(accumulate_weighted, "u8", PLN3, BatchShapes, "one")
accumulate_weighted_u8_pln3_ROID_gpu ==
  GpuBatch(accumulate_weighted, "u8", PLN3, BatchShapes, "each")
accumulate_weighted_u8_pkd3_single_gpu ==
  GpuSingle(accumulate_weighted, "u8", PKD3)
accumulate_weighted_u8_pkd3_batch_gpu ==
  GpuBatch(accumulate_weighted, "u8", PKD3, BatchShapes, "whole")
accumulate_weighted_u8_pkd3_ROIS_gpu ==
  GpuBatch(accumulate_weighted, "u8", PKD3, BatchShapes, "one")
accumulate_weighted_u8_pkd3_ROID_gpu ==
  GpuBatch(accumulate_weighted, "u8", PKD3, BatchShapes, "each")
accumulate_weighted_u8_pln1_single_host ==
  HostSingle(accumulate_weighted, "u8", PLN1)
accumulate_weighted_u8_pln1_batch_host ==
  HostBatch(accumulate_weighted, "u8", PLN1, BatchShapes, "whole")
accumulate_weighted_u8_pln1_ROIS_host ==
  HostBatch(accumulate_weighted, "u8", PLN1, BatchShapes, "one")
accumulate_weighted_u8_pln1_ROID_host ==
  HostBatch(accumulate_weighted, "u8", PLN1, BatchShapes, "each")
accumulate_weighted_u8_pln3_single_host ==
  HostSingle(accumulate_weighted, "u8", PLN3)
accumulate_weighted_u8_pln3_batch_host ==
  HostBatch(accumulate_weighted, "u8", PLN3, BatchShapes, "whole")
accumulate_weighted_u8_pln3_ROIS_host ==
  HostBatch(accumulate_weighted, "u8", PLN3, BatchShapes, "one")
accumulate_weighted_u8_pln3_ROID_host ==
  HostBatch(accumulate_weighted, "u8", PLN3, BatchShapes, "each")
accumulate_weighted_u8_pkd3_single_host ==
  HostSingle(accumulate_weighted, "u8", PKD3)
accumulate_weighted_u8_pkd3_batch_host ==
  HostBatch(accumulate_weighted, "u8", PKD3, BatchShapes, "whole")
accumulate_weighted_u8_pkd3_ROIS_host ==
  HostBatch(accumulate_weighted, "u8", PKD3, BatchShapes, "one")
accumulate_weighted_u8_pkd3_ROID_host ==
  HostBatch(accumulate_weighted, "u8", PKD3, BatchShapes, "each")

accumulate_weighted_functions == UNION {
  accumulate_weighted_u8_pln1_single_gpu,
  accumulate_weighted_u8_pln1_batch_gpu, accumulate_weighted_u8_pln1_ROIS_gpu,
  accumulate_weighted_u8_pln1_ROID_gpu, accumulate_weighted_u8_pln3_single_gpu,
  accumulate_weighted_u8_pln3_batch_gpu, accumulate_weighted_u8_pln3_ROIS_gpu,
  accumulate_weighted_u8_pln3_ROID_gpu, accumulate_weighted_u8_pkd3_single_gpu,
  accumulate_weighted_u8_pkd3_batch_gpu, accumulate_weighted_u8_pkd3_ROIS_gpu,
  accumulate_weighted_u8_pkd3_ROID_gpu,
  accumulate_weighted_u8_pln1_single_host,
  accumulate_weighted_u8_pln1_batch_host,
  accumulate_weighted_u8_pln1_ROIS_host, accumulate_weighted_u8_pln1_ROID_host,
  accumulate_weighted_u8_pln3_single_host,
  accumulate_weighted_u8_pln3_batch_host,
  accumulate_weighted_u8_pln3_ROIS_host, accumulate_weighted_u8_pln3_ROID_host,
  accumulate_weighted_u8_pkd3_single_host,
  accumulate_weighted_u8_pkd3_batch_host,
  accumulate_weighted_u8_pkd3_ROIS_host, accumulate_weighted_u8_pkd3_ROID_host}
-----------------------------------------------------------------------------
accumulate_squared ==
  Operation("accumulate_squared", {"srcPtr"},
            <<>>,
            [OCL |-> accumulate_squared_cl, HIP |-> accumulate_squared_hip],
            [OCL |-> accumulate_squared_cl_batch,
             HIP |-> accumulate_squared_hip_batch])

accumulate_squared_u8_pln1_single_gpu ==
  GpuSingle(accumulate_squared, "u8", PLN1)
accumulate_squared_u8_pln1_batch_gpu ==
  GpuBatch(accumulate_squared, "u8", PLN1, BatchShapes, "whole")
accumulate_squared_u8_pln1_ROIS_gpu ==
  GpuBatch(accumulate_squared, "u8", PLN1, BatchShapes, "one")
accumulate_squared_u8_pln1_ROID_gpu ==
  GpuBatch(accumulate_squared, "u8", PLN1, BatchShapes, "each")
accumulate_squared_u8_pln3_single_gpu ==
  GpuSingle(accumulate_squared, "u8", PLN3)
accumulate_squared_u8_pln3_batch_gpu ==
  GpuBatch(accumulate_squared, "u8", PLN3, BatchShapes, "whole")
accumulate_squared_u8_pln3_ROIS_gpu ==
  GpuBatch(accumulate_squared, "u8", PLN3, BatchShapes, "one")
accumulate_squared_u8_pln3_ROID_gpu ==
  GpuBatch(accumulate_squared, "u8", PLN3, BatchShapes, "each")
accumulate_squared_u8_pkd3_single_gpu ==
  GpuSingle(accumulate_squared, "u8", PKD3)
accumulate_squared_u8_pkd3_batch_gpu ==
  GpuBatch(accumulate_squared, "u8", PKD3, BatchShapes, "whole")
accumulate_squared_u8_pkd3_ROIS_gpu ==
  GpuBatch(accumulate_squared, "u8", PKD3, BatchShapes, "one")
accumulate_squared_u8_pkd3_ROID_gpu ==
  GpuBatch(accumulate_squared, "u8", PKD3, BatchShapes, "each")
accumulate_squared_u8_pln1_single_host ==
  HostSingle(accumulate_squared, "u8", PLN1)
accumulate_squared_u8_pln1_batch_host ==
  HostBatch(accumulate_squared, "u8", PLN1, BatchShapes, "whole")
accumulate_squared_u8_pln1_ROIS_host ==
  HostBatch(accumulate_squared, "u8", PLN1, BatchShapes, "one")
accumulate_squared_u8_pln1_ROID_host ==
  HostBatch(accumulate_squared, "u8", PLN1, BatchShapes, "each")
accumulate_squared_u8_pln3_single_host ==
  HostSingle(accumulate_squared, "u8", PLN3)
accumulate_squared_u8_pln3_batch_host ==
  HostBatch(accumulate_squared, "u8", PLN3, BatchShapes, "whole")
accumulate_squared_u8_pln3_ROIS_host ==
  HostBatch(accumulate_squared, "u8", PLN3, BatchShapes, "one")
accumulate_squared_u8_pln3_ROID_host ==
  HostBatch(accumulate_squared, "u8", PLN3, BatchShapes, "each")
accumulate_squared_u8_pkd3_single_host ==
  HostSingle(accumulate_squared, "u8", PKD3)
accumulate_squared_u8_pkd3_batch_host ==
  HostBatch(accumulate_squared, "u8", PKD3, BatchShapes, "whole")
accumulate_squared_u8_pkd3_ROIS_host ==
  HostBatch(accumulate_squared, "u8", PKD3, BatchShapes, "one")
accumulate_squared_u8_pkd3_ROID_host ==
  HostBatch(accumulate_squared, "u8", PKD3, BatchShapes, "each")

accumulate_squared_functions == UNION {
  accumulate_squared_u8_pln1_single_gpu, accumulate_squared_u8_pln1_batch_gpu,
  accumulate_squared_u8_pln1_ROIS_gpu, accumulate_squared_u8_pln1_ROID_gpu,
  accumulate_squared_u8_pln3_single_gpu, accumulate_squared_u8_pln3_batch_gpu,
  accumulate_squared_u8_pln3_ROIS_gpu, accumulate_squared_u8_pln3_ROID_gpu,
  accumulate_squared_u8_pkd3_single_gpu, accumulate_squared_u8_pkd3_batch_gpu,
  accumulate_squared_u8_pkd3_ROIS_gpu, accumulate_squared_u8_pkd3_ROID_gpu,
  accumulate_squared_u8_pln1_single_host,
  accumulate_squared_u8_pln1_batch_host, accumulate_squared_u8_pln1_ROIS_host,
  accumulate_squared_u8_pln1_ROID_host, accumulate_squared_u8_pln3_single_host,
  accumulate_squared_u8_pln3_batch_host, accumulate_squared_u8_pln3_ROIS_host,
  accumulate_squared_u8_pln3_ROID_host, accumulate_squared_u8_pkd3_single_host,
  accumulate_squared_u8_pkd3_batch_host, accumulate_squared_u8_pkd3_ROIS_host,
  accumulate_squared_u8_pkd3_ROID_host}
-----------------------------------------------------------------------------
AccumulateOperationsFunctions ==
  UNION {accumulate_functions, accumulate_weighted_functions,
    accumulate_squared_functions}
=============================================================================
