---------------------- MODULE MorphologicalTransforms -----------------------
(***************************************************************************)
(* The entry points of the morphological transforms                        *)
(* (rppi_morphological_operations.cpp):                                    *)
(* for each operation its record, its helpers, one definition for each     *)
(* family of functions that the source keeps together, and their union.    *)
(***************************************************************************)
EXTENDS EntryPointShapes, OclWrappers, HipWrappers
-----------------------------------------------------------------------------
erode ==
  Operation("erode", {"dstPtr", "srcPtr"},
            <<P("kernelSize", "uintArr0")>>,
            [OCL |-> erode_cl, HIP |-> erode_hip],
            [OCL |-> erode_cl_batch, HIP |-> erode_hip_batch])

erode_u8_pln1_single_gpu == GpuSingle(erode, "u8", PLN1)
erode_u8_pln1_batch_gpu == GpuBatch(erode, "u8", PLN1, BatchShapes, "whole")
erode_u8_pln1_ROIS_gpu == GpuBatch(erode, "u8", PLN1, BatchShapes, "one")
erode_u8_pln1_ROID_gpu == GpuBatch(erode, "u8", PLN1, BatchShapes, "each")
erode_u8_pln3_single_gpu == GpuSingle(erode, "u8", PLN3)
erode_u8_pln3_batch_gpu == GpuBatch(erode, "u8", PLN3, BatchShapes, "whole")
erode_u8_pln3_ROIS_gpu == GpuBatch(erode, "u8", PLN3, BatchShapes, "one")
erode_u8_pln3_ROID_gpu == GpuBatch(erode, "u8", PLN3, BatchShapes, "each")
erode_u8_pkd3_single_gpu == GpuSingle(erode, "u8", PKD3)
erode_u8_pkd3_batch_gpu == GpuBatch(erode, "u8", PKD3, BatchShapes, "whole")
erode_u8_pkd3_ROIS_gpu == GpuBatch(erode, "u8", PKD3, BatchShapes, "one")
erode_u8_pkd3_ROID_gpu == GpuBatch(erode, "u8", PKD3, BatchShapes, "each")
erode_u8_pln1_single_host == HostSingle(erode, "u8", PLN1)
erode_u8_pln1_batch_host == HostBatch(erode, "u8", PLN1, BatchShapes, "whole")
erode_u8_pln1_ROIS_host == HostBatch(erode, "u8", PLN1, BatchShapes, "one")
erode_u8_pln1_ROID_host == HostBatch(erode, "u8", PLN1, BatchShapes, "each")
erode_u8_pln3_single_host == HostSingle(erode, "u8", PLN3)
erode_u8_pln3_batch_host == HostBatch(erode, "u8", PLN3, BatchShapes, "whole")
erode_u8_pln3_ROIS_host == HostBatch(erode, "u8", PLN3, BatchShapes, "one")
erode_u8_pln3_ROID_host == HostBatch(erode, "u8", PLN3, BatchShapes, "each")
erode_u8_pkd3_single_host == HostSingle(erode, "u8", PKD3)
erode_u8_pkd3_batch_host == HostBatch(erode, "u8", PKD3, BatchShapes, "whole")
erode_u8_pkd3_ROIS_host == HostBatch(erode, "u8", PKD3, BatchShapes, "one")
erode_u8_pkd3_ROID_host == HostBatch(erode, "u8", PKD3, BatchShapes, "each")

erode_functions == UNION {
  erode_u8_pln1_single_gpu, erode_u8_pln1_batch_gpu, erode_u8_pln1_ROIS_gpu,
  erode_u8_pln1_ROID_gpu, erode_u8_pln3_single_gpu, erode_u8_pln3_batch_gpu,
  erode_u8_pln3_ROIS_gpu, erode_u8_pln3_ROID_gpu, erode_u8_pkd3_single_gpu,
  erode_u8_pkd3_batch_gpu, erode_u8_pkd3_ROIS_gpu, erode_u8_pkd3_ROID_gpu,
  erode_u8_pln1_single_host, erode_u8_pln1_batch_host, erode_u8_pln1_ROIS_host,
  erode_u8_pln1_ROID_host, erode_u8_pln3_single_host, erode_u8_pln3_batch_host,
  erode_u8_pln3_ROIS_host, erode_u8_pln3_ROID_host, erode_u8_pkd3_single_host,
  erode_u8_pkd3_batch_host, erode_u8_pkd3_ROIS_host, erode_u8_pkd3_ROID_host}
-----------------------------------------------------------------------------
dilate ==
  Operation("dilate", {"dstPtr", "srcPtr"},
            <<P("kernelSize", "uintArr0")>>,
            [OCL |-> dilate_cl, HIP |-> dilate_hip],
            [OCL |-> dilate_cl_batch, HIP |-> dilate_hip_batch])

dilate_u8_pln1_single_gpu == GpuSingle(dilate, "u8", PLN1)
dilate_u8_pln1_batch_gpu == GpuBatch(dilate, "u8", PLN1, BatchShapes, "whole")
dilate_u8_pln1_ROIS_gpu == GpuBatch(dilate, "u8", PLN1, BatchShapes, "one")
dilate_u8_pln1_ROID_gpu == GpuBatch(dilate, "u8", PLN1, BatchShapes, "each")
dilate_u8_pln3_single_gpu == GpuSingle(dilate, "u8", PLN3)
dilate_u8_pln3_batch_gpu == GpuBatch(dilate, "u8", PLN3, BatchShapes, "whole")
dilate_u8_pln3_ROIS_gpu == GpuBatch(dilate, "u8", PLN3, BatchShapes, "one")
dilate_u8_pln3_ROID_gpu == GpuBatch(dilate, "u8", PLN3, BatchShapes, "each")
dilate_u8_pkd3_single_gpu == GpuSingle(dilate, "u8", PKD3)
dilate_u8_pkd3_batch_gpu == GpuBatch(dilate, "u8", PKD3, BatchShapes, "whole")
dilate_u8_pkd3_ROIS_gpu == GpuBatch(dilate, "u8", PKD3, BatchShapes, "one")
dilate_u8_pkd3_ROID_gpu == GpuBatch(dilate, "u8", PKD3, BatchShapes, "each")
dilate_u8_pln1_single_host == HostSingle(dilate, "u8", PLN1)
dilate_u8_pln1_batch_host ==
  HostBatch(dilate, "u8", PLN1, BatchShapes, "whole")
dilate_u8_pln1_ROIS_host == HostBatch(dilate, "u8", PLN1, BatchShapes, "one")
dilate_u8_pln1_ROID_host == HostBatch(dilate, "u8", PLN1, BatchShapes, "each")
dilate_u8_pln3_single_host == HostSingle(dilate, "u8", PLN3)
dilate_u8_pln3_batch_host ==
  HostBatch(dilate, "u8", PLN3, BatchShapes, "whole")
dilate_u8_pln3_ROIS_host == HostBatch(dilate, "u8", PLN3, BatchShapes, "one")
dilate_u8_pln3_ROID_host == HostBatch(dilate, "u8", PLN3, BatchShapes, "each")
dilate_u8_pkd3_single_host == HostSingle(dilate, "u8", PKD3)
dilate_u8_pkd3_batch_host ==
  HostBatch(dilate, "u8", PKD3, BatchShapes, "whole")
dilate_u8_pkd3_ROIS_host == HostBatch(dilate, "u8", PKD3, BatchShapes, "one")
dilate_u8_pkd3_ROID_host == HostBatch(dilate, "u8", PKD3, BatchShapes, "each")

dilate_functions == UNION {
  dilate_u8_pln1_single_gpu, dilate_u8_pln1_batch_gpu, dilate_u8_pln1_ROIS_gpu,
  dilate_u8_pln1_ROID_gpu, dilate_u8_pln3_single_gpu, dilate_u8_pln3_batch_gpu,
  dilate_u8_pln3_ROIS_gpu, dilate_u8_pln3_ROID_gpu, dilate_u8_pkd3_single_gpu,
  dilate_u8_pkd3_batch_gpu, dilate_u8_pkd3_ROIS_gpu, dilate_u8_pkd3_ROID_gpu,
  dilate_u8_pln1_single_host, dilate_u8_pln1_batch_host,
  dilate_u8_pln1_ROIS_host, dilate_u8_pln1_ROID_host,
  dilate_u8_pln3_single_host, dilate_u8_pln3_batch_host,
  dilate_u8_pln3_ROIS_host, dilate_u8_pln3_ROID_host,
  dilate_u8_pkd3_single_host, dilate_u8_pkd3_batch_host,
  dilate_u8_pkd3_ROIS_host, dilate_u8_pkd3_ROID_host}
-----------------------------------------------------------------------------
MorphologicalTransformsFunctions ==
  UNION {erode_functions, dilate_functions}
=============================================================================
