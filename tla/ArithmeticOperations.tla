------------------------ MODULE ArithmeticOperations ------------------------
(***************************************************************************)
(* The entry points of the arithmetic operations but the accumulating ones *)
(* (rppi_arithmetic_operations.cpp):                                       *)
(* for each operation its record, its helpers, one definition for each     *)
(* family of functions that the source keeps together, and their union.    *)
(***************************************************************************)
EXTENDS EntryPointShapes, OclWrappers, HipWrappers
-----------------------------------------------------------------------------
add ==
  Operation("add", {"dstPtr", "srcPtr1", "srcPtr2"},
            <<>>,
            [OCL |-> add_cl, HIP |-> add_hip],
            [OCL |-> add_cl_batch, HIP |-> add_hip_batch])

add_u8_pln1_single_gpu == GpuSingle(add, "u8", PLN1)
add_u8_pln1_batch_gpu == GpuBatch(add, "u8", PLN1, BatchShapes, "whole")
add_u8_pln1_ROIS_gpu == GpuBatch(add, "u8", PLN1, BatchShapes, "one")
add_u8_pln1_ROID_gpu == GpuBatch(add, "u8", PLN1, BatchShapes, "each")
add_u8_pln3_single_gpu == GpuSingle(add, "u8", PLN3)
add_u8_pln3_batch_gpu == GpuBatch(add, "u8", PLN3, BatchShapes, "whole")
add_u8_pln3_ROIS_gpu == GpuBatch(add, "u8", PLN3, BatchShapes, "one")
add_u8_pln3_ROID_gpu == GpuBatch(add, "u8", PLN3, BatchShapes, "each")
add_u8_pkd3_single_gpu == GpuSingle(add, "u8", PKD3)
add_u8_pkd3_batch_gpu == GpuBatch(add, "u8", PKD3, BatchShapes, "whole")
add_u8_pkd3_ROIS_gpu == GpuBatch(add, "u8", PKD3, BatchShapes, "one")
add_u8_pkd3_ROID_gpu == GpuBatch(add, "u8", PKD3, BatchShapes, "each")
add_u8_pln1_single_host == HostSingle(add, "u8", PLN1)
add_u8_pln1_batch_host == HostBatch(add, "u8", PLN1, BatchShapes, "whole")
add_u8_pln1_ROIS_host == HostBatch(add, "u8", PLN1, BatchShapes, "one")
add_u8_pln1_ROID_host == HostBatch(add, "u8", PLN1, BatchShapes, "each")
add_u8_pln3_single_host == HostSingle(add, "u8", PLN3)
add_u8_pln3_batch_host == HostBatch(add, "u8", PLN3, BatchShapes, "whole")
add_u8_pln3_ROIS_host == HostBatch(add, "u8", PLN3, BatchShapes, "one")
add_u8_pln3_ROID_host == HostBatch(add, "u8", PLN3, BatchShapes, "each")
add_u8_pkd3_single_host == HostSingle(add, "u8", PKD3)
add_u8_pkd3_batch_host == HostBatch(add, "u8", PKD3, BatchShapes, "whole")
add_u8_pkd3_ROIS_host == HostBatch(add, "u8", PKD3, BatchShapes, "one")
add_u8_pkd3_ROID_host == HostBatch(add, "u8", PKD3, BatchShapes, "each")

add_functions == UNION {
  add_u8_pln1_single_gpu, add_u8_pln1_batch_gpu, add_u8_pln1_ROIS_gpu,
  add_u8_pln1_ROID_gpu, add_u8_pln3_single_gpu, add_u8_pln3_batch_gpu,
  add_u8_pln3_ROIS_gpu, add_u8_pln3_ROID_gpu, add_u8_pkd3_single_gpu,
  add_u8_pkd3_batch_gpu, add_u8_pkd3_ROIS_gpu, add_u8_pkd3_ROID_gpu,
  add_u8_pln1_single_host, add_u8_pln1_batch_host, add_u8_pln1_ROIS_host,
  add_u8_pln1_ROID_host, add_u8_pln3_single_host, add_u8_pln3_batch_host,
  add_u8_pln3_ROIS_host, add_u8_pln3_ROID_host, add_u8_pkd3_single_host,
  add_u8_pkd3_batch_host, add_u8_pkd3_ROIS_host, add_u8_pkd3_ROID_host}
-----------------------------------------------------------------------------
subtract ==
  Operation("subtract", {"dstPtr", "srcPtr1", "srcPtr2"},
            <<>>,
            [OCL |-> subtract_cl, HIP |-> subtract_hip],
            [OCL |-> subtract_cl_batch, HIP |-> subtract_hip_batch])

subtract_u8_pln1_single_gpu == GpuSingle(subtract, "u8", PLN1)
subtract_u8_pln1_batch_gpu ==
  GpuBatch(subtract, "u8", PLN1, BatchShapes, "whole")
subtract_u8_pln1_ROIS_gpu == GpuBatch(subtract, "u8", PLN1, BatchShapes, "one")
subtract_u8_pln1_ROID_gpu ==
  GpuBatch(subtract, "u8", PLN1, BatchShapes, "each")
subtract_u8_pln3_single_gpu == GpuSingle(subtract, "u8", PLN3)
subtract_u8_pln3_batch_gpu ==
  GpuBatch(subtract, "u8", PLN3, BatchShapes, "whole")
subtract_u8_pln3_ROIS_gpu == GpuBatch(subtract, "u8", PLN3, BatchShapes, "one")
subtract_u8_pln3_ROID_gpu ==
  GpuBatch(subtract, "u8", PLN3, BatchShapes, "each")
subtract_u8_pkd3_single_gpu == GpuSingle(subtract, "u8", PKD3)
subtract_u8_pkd3_batch_gpu ==
  GpuBatch(subtract, "u8", PKD3, BatchShapes, "whole")
subtract_u8_pkd3_ROIS_gpu == GpuBatch(subtract, "u8", PKD3, BatchShapes, "one")
subtract_u8_pkd3_ROID_gpu ==
  GpuBatch(subtract, "u8", PKD3, BatchShapes, "each")
subtract_u8_pln1_single_host == HostSingle(subtract, "u8", PLN1)
subtract_u8_pln1_batch_host ==
  HostBatch(subtract, "u8", PLN1, BatchShapes, "whole")
subtract_u8_pln1_ROIS_host ==
  HostBatch(subtract, "u8", PLN1, BatchShapes, "one")
subtract_u8_pln1_ROID_host ==
  HostBatch(subtract, "u8", PLN1, BatchShapes, "each")
subtract_u8_pln3_single_host == HostSingle(subtract, "u8", PLN3)
subtract_u8_pln3_batch_host ==
  HostBatch(subtract, "u8", PLN3, BatchShapes, "whole")
subtract_u8_pln3_ROIS_host ==
  HostBatch(subtract, "u8", PLN3, BatchShapes, "one")
subtract_u8_pln3_ROID_host ==
  HostBatch(subtract, "u8", PLN3, BatchShapes, "each")
subtract_u8_pkd3_single_host == HostSingle(subtract, "u8", PKD3)
subtract_u8_pkd3_batch_host ==
  HostBatch(subtract, "u8", PKD3, BatchShapes, "whole")
subtract_u8_pkd3_ROIS_host ==
  HostBatch(subtract, "u8", PKD3, BatchShapes, "one")
subtract_u8_pkd3_ROID_host ==
  HostBatch(subtract, "u8", PKD3, BatchShapes, "each")

subtract_functions == UNION {
  subtract_u8_pln1_single_gpu, subtract_u8_pln1_batch_gpu,
  subtract_u8_pln1_ROIS_gpu, subtract_u8_pln1_ROID_gpu,
  subtract_u8_pln3_single_gpu, subtract_u8_pln3_batch_gpu,
  subtract_u8_pln3_ROIS_gpu, subtract_u8_pln3_ROID_gpu,
  subtract_u8_pkd3_single_gpu, subtract_u8_pkd3_batch_gpu,
  subtract_u8_pkd3_ROIS_gpu, subtract_u8_pkd3_ROID_gpu,
  subtract_u8_pln1_single_host, subtract_u8_pln1_batch_host,
  subtract_u8_pln1_ROIS_host, subtract_u8_pln1_ROID_host,
  subtract_u8_pln3_single_host, subtract_u8_pln3_batch_host,
  subtract_u8_pln3_ROIS_host, subtract_u8_pln3_ROID_host,
  subtract_u8_pkd3_single_host, subtract_u8_pkd3_batch_host,
  subtract_u8_pkd3_ROIS_host, subtract_u8_pkd3_ROID_host}
-----------------------------------------------------------------------------
multiply ==
  Operation("multiply", {"dstPtr", "srcPtr1", "srcPtr2"},
            <<>>,
            [OCL |-> multiply_cl, HIP |-> multiply_hip],
            [OCL |-> multiply_cl_batch, HIP |-> multiply_hip_batch])

multiply_u8_pln1_single_gpu == GpuSingle(multiply, "u8", PLN1)
multiply_u8_pln1_batch_gpu ==
  GpuBatch(multiply, "u8", PLN1, BatchShapes, "whole")
multiply_u8_pln1_ROIS_gpu == GpuBatch(multiply, "u8", PLN1, BatchShapes, "one")
multiply_u8_pln1_ROID_gpu ==
  GpuBatch(multiply, "u8", PLN1, BatchShapes, "each")
multiply_u8_pln3_single_gpu == GpuSingle(multiply, "u8", PLN3)
multiply_u8_pln3_batch_gpu ==
  GpuBatch(multiply, "u8", PLN3, BatchShapes, "whole")
multiply_u8_pln3_ROIS_gpu == GpuBatch(multiply, "u8", PLN3, BatchShapes, "one")
multiply_u8_pln3_ROID_gpu ==
  GpuBatch(multiply, "u8", PLN3, BatchShapes, "each")
multiply_u8_pkd3_single_gpu == GpuSingle(multiply, "u8", PKD3)
multiply_u8_pkd3_batch_gpu ==
  GpuBatch(multiply, "u8", PKD3, BatchShapes, "whole")
multiply_u8_pkd3_ROIS_gpu == GpuBatch(multiply, "u8", PKD3, BatchShapes, "one")
multiply_u8_pkd3_ROID_gpu ==
  GpuBatch(multiply, "u8", PKD3, BatchShapes, "each")
multiply_u8_pln1_single_host == HostSingle(multiply, "u8", PLN1)
multiply_u8_pln1_batch_host ==
  HostBatch(multiply, "u8", PLN1, BatchShapes, "whole")
multiply_u8_pln1_ROIS_host ==
  HostBatch(multiply, "u8", PLN1, BatchShapes, "one")
multiply_u8_pln1_ROID_host ==
  HostBatch(multiply, "u8", PLN1, BatchShapes, "each")
multiply_u8_pln3_single_host == HostSingle(multiply, "u8", PLN3)
multiply_u8_pln3_batch_host ==
  HostBatch(multiply, "u8", PLN3, BatchShapes, "whole")
multiply_u8_pln3_ROIS_host ==
  HostBatch(multiply, "u8", PLN3, BatchShapes, "one")
multiply_u8_pln3_ROID_host ==
  HostBatch(multiply, "u8", PLN3, BatchShapes, "each")
multiply_u8_pkd3_single_host == HostSingle(multiply, "u8", PKD3)
multiply_u8_pkd3_batch_host ==
  HostBatch(multiply, "u8", PKD3, BatchShapes, "whole")
multiply_u8_pkd3_ROIS_host ==
  HostBatch(multiply, "u8", PKD3, BatchShapes, "one")
multiply_u8_pkd3_ROID_host ==
  HostBatch(multiply, "u8", PKD3, BatchShapes, "each")

multiply_functions == UNION {
  multiply_u8_pln1_single_gpu, multiply_u8_pln1_batch_gpu,
  multiply_u8_pln1_ROIS_gpu, multiply_u8_pln1_ROID_gpu,
  multiply_u8_pln3_single_gpu, multiply_u8_pln3_batch_gpu,
  multiply_u8_pln3_ROIS_gpu, multiply_u8_pln3_ROID_gpu,
  multiply_u8_pkd3_single_gpu, multiply_u8_pkd3_batch_gpu,
  multiply_u8_pkd3_ROIS_gpu, multiply_u8_pkd3_ROID_gpu,
  multiply_u8_pln1_single_host, multiply_u8_pln1_batch_host,
  multiply_u8_pln1_ROIS_host, multiply_u8_pln1_ROID_host,
  multiply_u8_pln3_single_host, multiply_u8_pln3_batch_host,
  multiply_u8_pln3_ROIS_host, multiply_u8_pln3_ROID_host,
  multiply_u8_pkd3_single_host, multiply_u8_pkd3_batch_host,
  multiply_u8_pkd3_ROIS_host, multiply_u8_pkd3_ROID_host}
-----------------------------------------------------------------------------
absolute_difference ==
  Operation("absolute_difference", {"dstPtr", "srcPtr1", "srcPtr2"},
            <<>>,
            [OCL |-> absolute_difference_cl, HIP |-> absolute_difference_hip],
            [OCL |-> absolute_difference_cl_batch,
             HIP |-> absolute_difference_hip_batch])

absolute_difference_u8_pln1_single_gpu ==
  GpuSingle(absolute_difference, "u8", PLN1)
absolute_difference_u8_pln1_batch_gpu ==
  GpuBatch(absolute_difference, "u8", PLN1, BatchShapes, "whole")
absolute_difference_u8_pln1_ROIS_gpu ==
  GpuBatch(absolute_difference, "u8", PLN1, BatchShapes, "one")
absolute_difference_u8_pln1_ROID_gpu ==
  GpuBatch(absolute_difference, "u8", PLN1, BatchShapes, "each")
absolute_difference_u8_pln3_single_gpu ==
  GpuSingle(absolute_difference, "u8", PLN3)
absolute_difference_u8_pln3_batch_gpu ==
  GpuBatch(absolute_difference, "u8", PLN3, BatchShapes, "whole")
absolute_difference_u8_pln3_ROIS_gpu ==
  GpuBatch(absolute_difference, "u8", PLN3, BatchShapes, "one")
absolute_difference_u8_pln3_ROID_gpu ==
  GpuBatch(absolute_difference, "u8", PLN3, BatchShapes, "each")
absolute_difference_u8_pkd3_single_gpu ==
  GpuSingle(absolute_difference, "u8", PKD3)
absolute_difference_u8_pkd3_batch_gpu ==
  GpuBatch(absolute_difference, "u8", PKD3, BatchShapes, "whole")
absolute_difference_u8_pkd3_ROIS_gpu ==
  GpuBatch(absolute_difference, "u8", PKD3, BatchShapes, "one")
absolute_difference_u8_pkd3_ROID_gpu ==
  GpuBatch(absolute_difference, "u8", PKD3, BatchShapes, "each")
absolute_difference_u8_pln1_single_host ==
  HostSingle(absolute_difference, "u8", PLN1)
absolute_difference_u8_pln1_batch_host ==
  HostBatch(absolute_difference, "u8", PLN1, BatchShapes, "whole")
absolute_difference_u8_pln1_ROIS_host ==
  HostBatch(absolute_difference, "u8", PLN1, BatchShapes, "one")
absolute_difference_u8_pln1_ROID_host ==
  HostBatch(absolute_difference, "u8", PLN1, BatchShapes, "each")
absolute_difference_u8_pln3_single_host ==
  HostSingle(absolute_difference, "u8", PLN3)
absolute_difference_u8_pln3_batch_host ==
  HostBatch(absolute_difference, "u8", PLN3, BatchShapes, "whole")
absolute_difference_u8_pln3_ROIS_host ==
  HostBatch(absolute_difference, "u8", PLN3, BatchShapes, "one")
absolute_difference_u8_pln3_ROID_host ==
  HostBatch(absolute_difference, "u8", PLN3, BatchShapes, "each")
absolute_difference_u8_pkd3_single_host ==
  HostSingle(absolute_difference, "u8", PKD3)
absolute_difference_u8_pkd3_batch_host ==
  HostBatch(absolute_difference, "u8", PKD3, BatchShapes, "whole")
absolute_difference_u8_pkd3_ROIS_host ==
  HostBatch(absolute_difference, "u8", PKD3, BatchShapes, "one")
absolute_difference_u8_pkd3_ROID_host ==
  HostBatch(absolute_difference, "u8", PKD3, BatchShapes, "each")

absolute_difference_functions == UNION {
  absolute_difference_u8_pln1_single_gpu,
  absolute_difference_u8_pln1_batch_gpu, absolute_difference_u8_pln1_ROIS_gpu,
  absolute_difference_u8_pln1_ROID_gpu, absolute_difference_u8_pln3_single_gpu,
  absolute_difference_u8_pln3_batch_gpu, absolute_difference_u8_pln3_ROIS_gpu,
  absolute_difference_u8_pln3_ROID_gpu, absolute_difference_u8_pkd3_single_gpu,
  absolute_difference_u8_pkd3_batch_gpu, absolute_difference_u8_pkd3_ROIS_gpu,
  absolute_difference_u8_pkd3_ROID_gpu,
  absolute_difference_u8_pln1_single_host,
  absolute_difference_u8_pln1_batch_host,
  absolute_difference_u8_pln1_ROIS_host, absolute_difference_u8_pln1_ROID_host,
  absolute_difference_u8_pln3_single_host,
  absolute_difference_u8_pln3_batch_host,
  absolute_difference_u8_pln3_ROIS_host, absolute_difference_u8_pln3_ROID_host,
  absolute_difference_u8_pkd3_single_host,
  absolute_difference_u8_pkd3_batch_host,
  absolute_difference_u8_pkd3_ROIS_host, absolute_difference_u8_pkd3_ROID_host}
-----------------------------------------------------------------------------
phase ==
  Operation("phase", {"dstPtr", "srcPtr1", "srcPtr2"},
            <<>>,
            [OCL |-> phase_cl, HIP |-> phase_hip],
            [OCL |-> phase_cl_batch, HIP |-> phase_hip_batch])

phase_u8_pln1_single_gpu == GpuSingle(phase, "u8", PLN1)
phase_u8_pln1_batch_gpu == GpuBatch(phase, "u8", PLN1, BatchShapes, "whole")
phase_u8_pln1_ROIS_gpu == GpuBatch(phase, "u8", PLN1, BatchShapes, "one")
phase_u8_pln1_ROID_gpu == GpuBatch(phase, "u8", PLN1, BatchShapes, "each")
phase_u8_pln3_single_gpu == GpuSingle(phase, "u8", PLN3)
phase_u8_pln3_batch_gpu == GpuBatch(phase, "u8", PLN3, BatchShapes, "whole")
phase_u8_pln3_ROIS_gpu == GpuBatch(phase, "u8", PLN3, BatchShapes, "one")
phase_u8_pln3_ROID_gpu == GpuBatch(phase, "u8", PLN3, BatchShapes, "each")
phase_u8_pkd3_single_gpu == GpuSingle(phase, "u8", PKD3)
phase_u8_pkd3_batch_gpu == GpuBatch(phase, "u8", PKD3, BatchShapes, "whole")
phase_u8_pkd3_ROIS_gpu == GpuBatch(phase, "u8", PKD3, BatchShapes, "one")
phase_u8_pkd3_ROID_gpu == GpuBatch(phase, "u8", PKD3, BatchShapes, "each")
phase_u8_pln1_single_host == HostSingle(phase, "u8", PLN1)
phase_u8_pln1_batch_host == HostBatch(phase, "u8", PLN1, BatchShapes, "whole")
phase_u8_pln1_ROIS_host == HostBatch(phase, "u8", PLN1, BatchShapes, "one")
phase_u8_pln1_ROID_host == HostBatch(phase, "u8", PLN1, BatchShapes, "each")
phase_u8_pln3_single_host == HostSingle(phase, "u8", PLN3)
phase_u8_pln3_batch_host == HostBatch(phase, "u8", PLN3, BatchShapes, "whole")
phase_u8_pln3_ROIS_host == HostBatch(phase, "u8", PLN3, BatchShapes, "one")
phase_u8_pln3_ROID_host == HostBatch(phase, "u8", PLN3, BatchShapes, "each")
phase_u8_pkd3_single_host == HostSingle(phase, "u8", PKD3)
phase_u8_pkd3_batch_host == HostBatch(phase, "u8", PKD3, BatchShapes, "whole")
phase_u8_pkd3_ROIS_host == HostBatch(phase, "u8", PKD3, BatchShapes, "one")
phase_u8_pkd3_ROID_host == HostBatch(phase, "u8", PKD3, BatchShapes, "each")

phase_functions == UNION {
  phase_u8_pln1_single_gpu, phase_u8_pln1_batch_gpu, phase_u8_pln1_ROIS_gpu,
  phase_u8_pln1_ROID_gpu, phase_u8_pln3_single_gpu, phase_u8_pln3_batch_gpu,
  phase_u8_pln3_ROIS_gpu, phase_u8_pln3_ROID_gpu, phase_u8_pkd3_single_gpu,
  phase_u8_pkd3_batch_gpu, phase_u8_pkd3_ROIS_gpu, phase_u8_pkd3_ROID_gpu,
  phase_u8_pln1_single_host, phase_u8_pln1_batch_host, phase_u8_pln1_ROIS_host,
  phase_u8_pln1_ROID_host, phase_u8_pln3_single_host, phase_u8_pln3_batch_host,
  phase_u8_pln3_ROIS_host, phase_u8_pln3_ROID_host, phase_u8_pkd3_single_host,
  phase_u8_pkd3_batch_host, phase_u8_pkd3_ROIS_host, phase_u8_pkd3_ROID_host}
-----------------------------------------------------------------------------
magnitude ==
  Operation("magnitude", {"dstPtr", "srcPtr1", "srcPtr2"},
            <<>>,
            [OCL |-> magnitude_cl, HIP |-> magnitude_hip],
            [OCL |-> magnitude_cl_batch, HIP |-> magnitude_hip_batch])

magnitude_u8_pln1_single_gpu == GpuSingle(magnitude, "u8", PLN1)
magnitude_u8_pln1_batch_gpu ==
  GpuBatch(magnitude, "u8", PLN1, BatchShapes, "whole")
magnitude_u8_pln1_ROIS_gpu ==
  GpuBatch(magnitude, "u8", PLN1, BatchShapes, "one")
magnitude_u8_pln1_ROID_gpu ==
  GpuBatch(magnitude, "u8", PLN1, BatchShapes, "each")
magnitude_u8_pln3_single_gpu == GpuSingle(magnitude, "u8", PLN3)
magnitude_u8_pln3_batch_gpu ==
  GpuBatch(magnitude, "u8", PLN3, BatchShapes, "whole")
magnitude_u8_pln3_ROIS_gpu ==
  GpuBatch(magnitude, "u8", PLN3, BatchShapes, "one")
magnitude_u8_pln3_ROID_gpu ==
  GpuBatch(magnitude, "u8", PLN3, BatchShapes, "each")
magnitude_u8_pkd3_single_gpu == GpuSingle(magnitude, "u8", PKD3)
magnitude_u8_pkd3_batch_gpu ==
  GpuBatch(magnitude, "u8", PKD3, BatchShapes, "whole")
magnitude_u8_pkd3_ROIS_gpu ==
  GpuBatch(magnitude, "u8", PKD3, BatchShapes, "one")
magnitude_u8_pkd3_ROID_gpu ==
  GpuBatch(magnitude, "u8", PKD3, BatchShapes, "each")
magnitude_u8_pln1_single_host == HostSingle(magnitude, "u8", PLN1)
magnitude_u8_pln1_batch_host ==
  HostBatch(magnitude, "u8", PLN1, BatchShapes, "whole")
magnitude_u8_pln1_ROIS_host ==
  HostBatch(magnitude, "u8", PLN1, BatchShapes, "one")
magnitude_u8_pln1_ROID_host ==
  HostBatch(magnitude, "u8", PLN1, BatchShapes, "each")
magnitude_u8_pln3_single_host == HostSingle(magnitude, "u8", PLN3)
magnitude_u8_pln3_batch_host ==
  HostBatch(magnitude, "u8", PLN3, BatchShapes, "whole")
magnitude_u8_pln3_ROIS_host ==
  HostBatch(magnitude, "u8", PLN3, BatchShapes, "one")
magnitude_u8_pln3_ROID_host ==
  HostBatch(magnitude, "u8", PLN3, BatchShapes, "each")
magnitude_u8_pkd3_single_host == HostSingle(magnitude, "u8", PKD3)
magnitude_u8_pkd3_batch_host ==
  HostBatch(magnitude, "u8", PKD3, BatchShapes, "whole")
magnitude_u8_pkd3_ROIS_host ==
  HostBatch(magnitude, "u8", PKD3, BatchShapes, "one")
magnitude_u8_pkd3_ROID_host ==
  HostBatch(magnitude, "u8", PKD3, BatchShapes, "each")

magnitude_functions == UNION {
  magnitude_u8_pln1_single_gpu, magnitude_u8_pln1_batch_gpu,
  magnitude_u8_pln1_ROIS_gpu, magnitude_u8_pln1_ROID_gpu,
  magnitude_u8_pln3_single_gpu, magnitude_u8_pln3_batch_gpu,
  magnitude_u8_pln3_ROIS_gpu, magnitude_u8_pln3_ROID_gpu,
  magnitude_u8_pkd3_single_gpu, magnitude_u8_pkd3_batch_gpu,
  magnitude_u8_pkd3_ROIS_gpu, magnitude_u8_pkd3_ROID_gpu,
  magnitude_u8_pln1_single_host, magnitude_u8_pln1_batch_host,
  magnitude_u8_pln1_ROIS_host, magnitude_u8_pln1_ROID_host,
  magnitude_u8_pln3_single_host, magnitude_u8_pln3_batch_host,
  magnitude_u8_pln3_ROIS_host, magnitude_u8_pln3_ROID_host,
  magnitude_u8_pkd3_single_host, magnitude_u8_pkd3_batch_host,
  magnitude_u8_pkd3_ROIS_host, magnitude_u8_pkd3_ROID_host}
-----------------------------------------------------------------------------
ArithmeticOperationsFunctions ==
  UNION {add_functions, subtract_functions, multiply_functions,
    absolute_difference_functions, phase_functions, magnitude_functions}
=============================================================================
