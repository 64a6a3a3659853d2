------------------------- MODULE LogicalOperations --------------------------
(***************************************************************************)
(* The entry points of the logical operations                              *)
(* (rppi_logical_operations.cpp):                                          *)
(* for each operation its record, its helpers, one definition for each     *)
(* family of functions that the source keeps together, and their union.    *)
(***************************************************************************)
EXTENDS EntryPointShapes, OclWrappers, HipWrappers
-----------------------------------------------------------------------------
exclusive_OR ==
  Operation("exclusive_OR", {"dstPtr", "srcPtr1", "srcPtr2"},
            <<>>,
            [OCL |-> exclusive_OR_cl, HIP |-> exclusive_OR_hip],
            [OCL |-> exclusive_OR_cl_batch, HIP |-> exclusive_OR_hip_batch])

exclusive_OR_u8_pln1_single_gpu == GpuSingle(exclusive_OR, "u8", PLN1)
exclusive_OR_u8_pln1_batch_gpu ==
  GpuBatch(exclusive_OR, "u8", PLN1, BatchShapes, "whole")
exclusive_OR_u8_pln1_ROIS_gpu ==
  GpuBatch(exclusive_OR, "u8", PLN1, BatchShapes, "one")
exclusive_OR_u8_pln1_ROID_gpu ==
  GpuBatch(exclusive_OR, "u8", PLN1, BatchShapes, "each")
exclusive_OR_u8_pln3_single_gpu == GpuSingle(exclusive_OR, "u8", PLN3)
exclusive_OR_u8_pln3_batch_gpu ==
  GpuBatch(exclusive_OR, "u8", PLN3, BatchShapes, "whole")
exclusive_OR_u8_pln3_ROIS_gpu ==
  GpuBatch(exclusive_OR, "u8", PLN3, BatchShapes, "one")
exclusive_OR_u8_pln3_ROID_gpu ==
  GpuBatch(exclusive_OR, "u8", PLN3, BatchShapes, "each")
exclusive_OR_u8_pkd3_single_gpu == GpuSingle(exclusive_OR, "u8", PKD3)
exclusive_OR_u8_pkd3_batch_gpu ==
  GpuBatch(exclusive_OR, "u8", PKD3, BatchShapes, "whole")
exclusive_OR_u8_pkd3_ROIS_gpu ==
  GpuBatch(exclusive_OR, "u8", PKD3, BatchShapes, "one")
exclusive_OR_u8_pkd3_ROID_gpu ==
  GpuBatch(exclusive_OR, "u8", PKD3, BatchShapes, "each")
exclusive_OR_u8_pln1_single_host == HostSingle(exclusive_OR, "u8", PLN1)
exclusive_OR_u8_pln1_batch_host ==
  HostBatch(exclusive_OR, "u8", PLN1, BatchShapes, "whole")
exclusive_OR_u8_pln1_ROIS_host ==
  HostBatch(exclusive_OR, "u8", PLN1, BatchShapes, "one")
exclusive_OR_u8_pln1_ROID_host ==
  HostBatch(exclusive_OR, "u8", PLN1, BatchShapes, "each")
exclusive_OR_u8_pln3_single_host == HostSingle(exclusive_OR, "u8", PLN3)
exclusive_OR_u8_pln3_batch_host ==
  HostBatch(exclusive_OR, "u8", PLN3, BatchShapes, "whole")
exclusive_OR_u8_pln3_ROIS_host ==
  HostBatch(exclusive_OR, "u8", PLN3, BatchShapes, "one")
exclusive_OR_u8_pln3_ROID_host ==
  HostBatch(exclusive_OR, "u8", PLN3, BatchShapes, "each")
exclusive_OR_u8_pkd3_single_host == HostSingle(exclusive_OR, "u8", PKD3)
exclusive_OR_u8_pkd3_batch_host ==
  HostBatch(exclusive_OR, "u8", PKD3, BatchShapes, "whole")
exclusive_OR_u8_pkd3_ROIS_host ==
  HostBatch(exclusive_OR, "u8", PKD3, BatchShapes, "one")
exclusive_OR_u8_pkd3_ROID_host ==
  HostBatch(exclusive_OR, "u8", PKD3, BatchShapes, "each")

exclusive_OR_functions == UNION {
  exclusive_OR_u8_pln1_single_gpu, exclusive_OR_u8_pln1_batch_gpu,
  exclusive_OR_u8_pln1_ROIS_gpu, exclusive_OR_u8_pln1_ROID_gpu,
  exclusive_OR_u8_pln3_single_gpu, exclusive_OR_u8_pln3_batch_gpu,
  exclusive_OR_u8_pln3_ROIS_gpu, exclusive_OR_u8_pln3_ROID_gpu,
  exclusive_OR_u8_pkd3_single_gpu, exclusive_OR_u8_pkd3_batch_gpu,
  exclusive_OR_u8_pkd3_ROIS_gpu, exclusive_OR_u8_pkd3_ROID_gpu,
  exclusive_OR_u8_pln1_single_host, exclusive_OR_u8_pln1_batch_host,
  exclusive_OR_u8_pln1_ROIS_host, exclusive_OR_u8_pln1_ROID_host,
  exclusive_OR_u8_pln3_single_host, exclusive_OR_u8_pln3_batch_host,
  exclusive_OR_u8_pln3_ROIS_host, exclusive_OR_u8_pln3_ROID_host,
  exclusive_OR_u8_pkd3_single_host, exclusive_OR_u8_pkd3_batch_host,
  exclusive_OR_u8_pkd3_ROIS_host, exclusive_OR_u8_pkd3_ROID_host}
-----------------------------------------------------------------------------
inclusive_OR ==
  Operation("inclusive_OR", {"dstPtr", "srcPtr1", "srcPtr2"},
            <<>>,
            [OCL |-> inclusive_OR_cl, HIP |-> inclusive_OR_hip],
            [OCL |-> inclusive_OR_cl_batch, HIP |-> inclusive_OR_hip_batch])

inclusive_OR_u8_pln1_single_gpu == GpuSingle(inclusive_OR, "u8", PLN1)
inclusive_OR_u8_pln1_batch_gpu ==
  GpuBatch(inclusive_OR, "u8", PLN1, BatchShapes, "whole")
inclusive_OR_u8_pln1_ROIS_gpu ==
  GpuBatch(inclusive_OR, "u8", PLN1, BatchShapes, "one")
inclusive_OR_u8_pln1_ROID_gpu ==
  GpuBatch(inclusive_OR, "u8", PLN1, BatchShapes, "each")
inclusive_OR_u8_pln3_single_gpu == GpuSingle(inclusive_OR, "u8", PLN3)
inclusive_OR_u8_pln3_batch_gpu ==
  GpuBatch(inclusive_OR, "u8", PLN3, BatchShapes, "whole")
inclusive_OR_u8_pln3_ROIS_gpu ==
  GpuBatch(inclusive_OR, "u8", PLN3, BatchShapes, "one")
inclusive_OR_u8_pln3_ROID_gpu ==
  GpuBatch(inclusive_OR, "u8", PLN3, BatchShapes, "each")
inclusive_OR_u8_pkd3_single_gpu == GpuSingle(inclusive_OR, "u8", PKD3)
inclusive_OR_u8_pkd3_batch_gpu ==
  GpuBatch(inclusive_OR, "u8", PKD3, BatchShapes, "whole")
inclusive_OR_u8_pkd3_ROIS_gpu ==
  GpuBatch(inclusive_OR, "u8", PKD3, BatchShapes, "one")
inclusive_OR_u8_pkd3_ROID_gpu ==
  GpuBatch(inclusive_OR, "u8", PKD3, BatchShapes, "each")
inclusive_OR_u8_pln1_single_host == HostSingle(inclusive_OR, "u8", PLN1)
inclusive_OR_u8_pln1_batch_host ==
  HostBatch(inclusive_OR, "u8", PLN1, BatchShapes, "whole")
inclusive_OR_u8_pln1_ROIS_host ==
  HostBatch(inclusive_OR, "u8", PLN1, BatchShapes, "one")
inclusive_OR_u8_pln1_ROID_host ==
  HostBatch(inclusive_OR, "u8", PLN1, BatchShapes, "each")
inclusive_OR_u8_pln3_single_host == HostSingle(inclusive_OR, "u8", PLN3)
inclusive_OR_u8_pln3_batch_host ==
  HostBatch(inclusive_OR, "u8", PLN3, BatchShapes, "whole")
inclusive_OR_u8_pln3_ROIS_host ==
  HostBatch(inclusive_OR, "u8", PLN3, BatchShapes, "one")
inclusive_OR_u8_pln3_ROID_host ==
  HostBatch(inclusive_OR, "u8", PLN3, BatchShapes, "each")
inclusive_OR_u8_pkd3_single_host == HostSingle(inclusive_OR, "u8", PKD3)
inclusive_OR_u8_pkd3_batch_host ==
  HostBatch(inclusive_OR, "u8", PKD3, BatchShapes, "whole")
inclusive_OR_u8_pkd3_ROIS_host ==
  HostBatch(inclusive_OR, "u8", PKD3, BatchShapes, "one")
inclusive_OR_u8_pkd3_ROID_host ==
  HostBatch(inclusive_OR, "u8", PKD3, BatchShapes, "each")

inclusive_OR_functions == UNION {
  inclusive_OR_u8_pln1_single_gpu, inclusive_OR_u8_pln1_batch_gpu,
  inclusive_OR_u8_pln1_ROIS_gpu, inclusive_OR_u8_pln1_ROID_gpu,
  inclusive_OR_u8_pln3_single_gpu, inclusive_OR_u8_pln3_batch_gpu,
  inclusive_OR_u8_pln3_ROIS_gpu, inclusive_OR_u8_pln3_ROID_gpu,
  inclusive_OR_u8_pkd3_single_gpu, inclusive_OR_u8_pkd3_batch_gpu,
  inclusive_OR_u8_pkd3_ROIS_gpu, inclusive_OR_u8_pkd3_ROID_gpu,
  inclusive_OR_u8_pln1_single_host, inclusive_OR_u8_pln1_batch_host,
  inclusive_OR_u8_pln1_ROIS_host, inclusive_OR_u8_pln1_ROID_host,
  inclusive_OR_u8_pln3_single_host, inclusive_OR_u8_pln3_batch_host,
  inclusive_OR_u8_pln3_ROIS_host, inclusive_OR_u8_pln3_ROID_host,
  inclusive_OR_u8_pkd3_single_host, inclusive_OR_u8_pkd3_batch_host,
  inclusive_OR_u8_pkd3_ROIS_host, inclusive_OR_u8_pkd3_ROID_host}
-----------------------------------------------------------------------------
bitwise_AND ==
  Operation("bitwise_AND", {"dstPtr", "srcPtr1", "srcPtr2"},
            <<>>,
            [OCL |-> bitwise_AND_cl, HIP |-> bitwise_AND_hip],
            [OCL |-> bitwise_AND_cl_batch, HIP |-> bitwise_AND_hip_batch])

bitwise_AND_u8_pln1_single_gpu == GpuSingle(bitwise_AND, "u8", PLN1)
bitwise_AND_u8_pln1_batch_gpu ==
  GpuBatch(bitwise_AND, "u8", PLN1, BatchShapes, "whole")
bitwise_AND_u8_pln1_ROIS_gpu ==
  GpuBatch(bitwise_AND, "u8", PLN1, BatchShapes, "one")
bitwise_AND_u8_pln1_ROID_gpu ==
  GpuBatch(bitwise_AND, "u8", PLN1, BatchShapes, "each")
bitwise_AND_u8_pln3_single_gpu == GpuSingle(bitwise_AND, "u8", PLN3)
bitwise_AND_u8_pln3_batch_gpu ==
  GpuBatch(bitwise_AND, "u8", PLN3, BatchShapes, "whole")
bitwise_AND_u8_pln3_ROIS_gpu ==
  GpuBatch(bitwise_AND, "u8", PLN3, BatchShapes, "one")
bitwise_AND_u8_pln3_ROID_gpu ==
  GpuBatch(bitwise_AND, "u8", PLN3, BatchShapes, "each")
bitwise_AND_u8_pkd3_single_gpu == GpuSingle(bitwise_AND, "u8", PKD3)
bitwise_AND_u8_pkd3_batch_gpu ==
  GpuBatch(bitwise_AND, "u8", PKD3, BatchShapes, "whole")
bitwise_AND_u8_pkd3_ROIS_gpu ==
  GpuBatch(bitwise_AND, "u8", PKD3, BatchShapes, "one")
bitwise_AND_u8_pkd3_ROID_gpu ==
  GpuBatch(bitwise_AND, "u8", PKD3, BatchShapes, "each")
bitwise_AND_u8_pln1_single_host == HostSingle(bitwise_AND, "u8", PLN1)
bitwise_AND_u8_pln1_batch_host ==
  HostBatch(bitwise_AND, "u8", PLN1, BatchShapes, "whole")
bitwise_AND_u8_pln1_ROIS_host ==
  HostBatch(bitwise_AND, "u8", PLN1, BatchShapes, "one")
bitwise_AND_u8_pln1_ROID_host ==
  HostBatch(bitwise_AND, "u8", PLN1, BatchShapes, "each")
bitwise_AND_u8_pln3_single_host == HostSingle(bitwise_AND, "u8", PLN3)
bitwise_AND_u8_pln3_batch_host ==
  HostBatch(bitwise_AND, "u8", PLN3, BatchShapes, "whole")
bitwise_AND_u8_pln3_ROIS_host ==
  HostBatch(bitwise_AND, "u8", PLN3, BatchShapes, "one")
bitwise_AND_u8_pln3_ROID_host ==
  HostBatch(bitwise_AND, "u8", PLN3, BatchShapes, "each")
bitwise_AND_u8_pkd3_single_host == HostSingle(bitwise_AND, "u8", PKD3)
bitwise_AND_u8_pkd3_batch_host ==
  HostBatch(bitwise_AND, "u8", PKD3, BatchShapes, "whole")
bitwise_AND_u8_pkd3_ROIS_host ==
  HostBatch(bitwise_AND, "u8", PKD3, BatchShapes, "one")
bitwise_AND_u8_pkd3_ROID_host ==
  HostBatch(bitwise_AND, "u8", PKD3, BatchShapes, "each")

bitwise_AND_functions == UNION {
  bitwise_AND_u8_pln1_single_gpu, bitwise_AND_u8_pln1_batch_gpu,
  bitwise_AND_u8_pln1_ROIS_gpu, bitwise_AND_u8_pln1_ROID_gpu,
  bitwise_AND_u8_pln3_single_gpu, bitwise_AND_u8_pln3_batch_gpu,
  bitwise_AND_u8_pln3_ROIS_gpu, bitwise_AND_u8_pln3_ROID_gpu,
  bitwise_AND_u8_pkd3_single_gpu, bitwise_AND_u8_pkd3_batch_gpu,
  bitwise_AND_u8_pkd3_ROIS_gpu, bitwise_AND_u8_pkd3_ROID_gpu,
  bitwise_AND_u8_pln1_single_host, bitwise_AND_u8_pln1_batch_host,
  bitwise_AND_u8_pln1_ROIS_host, bitwise_AND_u8_pln1_ROID_host,
  bitwise_AND_u8_pln3_single_host, bitwise_AND_u8_pln3_batch_host,
  bitwise_AND_u8_pln3_ROIS_host, bitwise_AND_u8_pln3_ROID_host,
  bitwise_AND_u8_pkd3_single_host, bitwise_AND_u8_pkd3_batch_host,
  bitwise_AND_u8_pkd3_ROIS_host, bitwise_AND_u8_pkd3_ROID_host}
-----------------------------------------------------------------------------
bitwise_NOT ==
  Operation("bitwise_NOT", {"dstPtr", "srcPtr"},
            <<>>,
            [OCL |-> bitwise_NOT_cl, HIP |-> bitwise_NOT_hip],
            [OCL |-> bitwise_NOT_cl_batch, HIP |-> bitwise_NOT_hip_batch])

bitwise_NOT_u8_pln1_single_gpu == GpuSingle(bitwise_NOT, "u8", PLN1)
bitwise_NOT_u8_pln1_batch_gpu ==
  GpuBatch(bitwise_NOT, "u8", PLN1, BatchShapes, "whole")
bitwise_NOT_u8_pln1_ROIS_gpu ==
  GpuBatch(bitwise_NOT, "u8", PLN1, BatchShapes, "one")
bitwise_NOT_u8_pln1_ROID_gpu ==
  GpuBatch(bitwise_NOT, "u8", PLN1, BatchShapes, "each")
bitwise_NOT_u8_pln3_single_gpu == GpuSingle(bitwise_NOT, "u8", PLN3)
bitwise_NOT_u8_pln3_batch_gpu ==
  GpuBatch(bitwise_NOT, "u8", PLN3, BatchShapes, "whole")
bitwise_NOT_u8_pln3_ROIS_gpu ==
  GpuBatch(bitwise_NOT, "u8", PLN3, BatchShapes, "one")
bitwise_NOT_u8_pln3_ROID_gpu ==
  GpuBatch(bitwise_NOT, "u8", PLN3, BatchShapes, "each")
bitwise_NOT_u8_pkd3_single_gpu == GpuSingle(bitwise_NOT, "u8", PKD3)
bitwise_NOT_u8_pkd3_batch_gpu ==
  GpuBatch(bitwise_NOT, "u8", PKD3, BatchShapes, "whole")
bitwise_NOT_u8_pkd3_ROIS_gpu ==
  GpuBatch(bitwise_NOT, "u8", PKD3, BatchShapes, "one")
bitwise_NOT_u8_pkd3_ROID_gpu ==
  GpuBatch(bitwise_NOT, "u8", PKD3, BatchShapes, "each")
bitwise_NOT_u8_pln1_single_host == HostSingle(bitwise_NOT, "u8", PLN1)
bitwise_NOT_u8_pln1_batch_host ==
  HostBatch(bitwise_NOT, "u8", PLN1, BatchShapes, "whole")
bitwise_NOT_u8_pln1_ROIS_host ==
  HostBatch(bitwise_NOT, "u8", PLN1, BatchShapes, "one")
bitwise_NOT_u8_pln1_ROID_host ==
  HostBatch(bitwise_NOT, "u8", PLN1, BatchShapes, "each")
bitwise_NOT_u8_pln3_single_host == HostSingle(bitwise_NOT, "u8", PLN3)
bitwise_NOT_u8_pln3_batch_host ==
  HostBatch(bitwise_NOT, "u8", PLN3, BatchShapes, "whole")
bitwise_NOT_u8_pln3_ROIS_host ==
  HostBatch(bitwise_NOT, "u8", PLN3, BatchShapes, "one")
bitwise_NOT_u8_pln3_ROID_host ==
  HostBatch(bitwise_NOT, "u8", PLN3, BatchShapes, "each")
bitwise_NOT_u8_pkd3_single_host == HostSingle(bitwise_NOT, "u8", PKD3)
bitwise_NOT_u8_pkd3_batch_host ==
  HostBatch(bitwise_NOT, "u8", PKD3, BatchShapes, "whole")
bitwise_NOT_u8_pkd3_ROIS_host ==
  HostBatch(bitwise_NOT, "u8", PKD3, BatchShapes, "one")
bitwise_NOT_u8_pkd3_ROID_host ==
  HostBatch(bitwise_NOT, "u8", PKD3, BatchShapes, "each")

bitwise_NOT_functions == UNION {
  bitwise_NOT_u8_pln1_single_gpu, bitwise_NOT_u8_pln1_batch_gpu,
  bitwise_NOT_u8_pln1_ROIS_gpu, bitwise_NOT_u8_pln1_ROID_gpu,
  bitwise_NOT_u8_pln3_single_gpu, bitwise_NOT_u8_pln3_batch_gpu,
  bitwise_NOT_u8_pln3_ROIS_gpu, bitwise_NOT_u8_pln3_ROID_gpu,
  bitwise_NOT_u8_pkd3_single_gpu, bitwise_NOT_u8_pkd3_batch_gpu,
  bitwise_NOT_u8_pkd3_ROIS_gpu, bitwise_NOT_u8_pkd3_ROID_gpu,
  bitwise_NOT_u8_pln1_single_host, bitwise_NOT_u8_pln1_batch_host,
  bitwise_NOT_u8_pln1_ROIS_host, bitwise_NOT_u8_pln1_ROID_host,
  bitwise_NOT_u8_pln3_single_host, bitwise_NOT_u8_pln3_batch_host,
  bitwise_NOT_u8_pln3_ROIS_host, bitwise_NOT_u8_pln3_ROID_host,
  bitwise_NOT_u8_pkd3_single_host, bitwise_NOT_u8_pkd3_batch_host,
  bitwise_NOT_u8_pkd3_ROIS_host, bitwise_NOT_u8_pkd3_ROID_host}
-----------------------------------------------------------------------------
LogicalOperationsFunctions ==
  UNION {exclusive_OR_functions, inclusive_OR_functions, bitwise_AND_functions,
  bitwise_NOT_functions}
=============================================================================
