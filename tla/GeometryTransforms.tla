------------------------- MODULE GeometryTransforms -------------------------
(***************************************************************************)
(* The entry points of the first geometry transforms                       *)
(* (rppi_geometry_transforms.cpp, up to resize):                           *)
(* for each operation its record, its helpers, one definition for each     *)
(* family of functions that the source keeps together, and their union.    *)
(***************************************************************************)
EXTENDS EntryPointShapes, OclWrappers, HipWrappers
-----------------------------------------------------------------------------
lens_correction ==
  Operation("lens_correction", {"dstPtr", "srcPtr"},
            <<P("strength", "floatArr0"), P("zoom", "floatArr1")>>,
            [OCL |-> lens_correction_cl, HIP |-> lens_correction_hip],
            [OCL |-> lens_correction_cl_batch,
             HIP |-> lens_correction_hip_batch])

lens_correction_u8_pln1_single_gpu == GpuSingle(lens_correction, "u8", PLN1)
lens_correction_u8_pln1_batch_gpu ==
  GpuBatch(lens_correction, "u8", PLN1, BatchShapes, "whole")
lens_correction_u8_pln1_ROIS_gpu ==
  GpuBatch(lens_correction, "u8", PLN1, BatchShapes, "one")
lens_correction_u8_pln1_ROID_gpu ==
  GpuBatch(lens_correction, "u8", PLN1, BatchShapes, "each")
lens_correction_u8_pln3_single_gpu == GpuSingle(lens_correction, "u8", PLN3)
lens_correction_u8_pln3_batch_gpu ==
  GpuBatch(lens_correction, "u8", PLN3, BatchShapes, "whole")
lens_correction_u8_pln3_ROIS_gpu ==
  GpuBatch(lens_correction, "u8", PLN3, BatchShapes, "one")
lens_correction_u8_pln3_ROID_gpu ==
  GpuBatch(lens_correction, "u8", PLN3, BatchShapes, "each")
lens_correction_u8_pkd3_single_gpu == GpuSingle(lens_correction, "u8", PKD3)
lens_correction_u8_pkd3_batch_gpu ==
  GpuBatch(lens_correction, "u8", PKD3, BatchShapes, "whole")
lens_correction_u8_pkd3_ROIS_gpu ==
  GpuBatch(lens_correction, "u8", PKD3, BatchShapes, "one")
lens_correction_u8_pkd3_ROID_gpu ==
  GpuBatch(lens_correction, "u8", PKD3, BatchShapes, "each")
lens_correction_u8_pln1_single_host == HostSingle(lens_correction, "u8", PLN1)
lens_correction_u8_pln1_batch_host ==
  HostBatch(lens_correction, "u8", PLN1, BatchShapes, "whole")
lens_correction_u8_pln1_ROIS_host ==
  HostBatch(lens_correction, "u8", PLN1, BatchShapes, "one")
lens_correction_u8_pln1_ROID_host ==
  HostBatch(lens_correction, "u8", PLN1, BatchShapes, "each")
lens_correction_u8_pln3_single_host == HostSingle(lens_correction, "u8", PLN3)
lens_correction_u8_pln3_batch_host ==
  HostBatch(lens_correction, "u8", PLN3, BatchShapes, "whole")
lens_correction_u8_pln3_ROIS_host ==
  HostBatch(lens_correction, "u8", PLN3, BatchShapes, "one")
lens_correction_u8_pln3_ROID_host ==
  HostBatch(lens_correction, "u8", PLN3, BatchShapes, "each")
lens_correction_u8_pkd3_single_host == HostSingle(lens_correction, "u8", PKD3)
lens_correction_u8_pkd3_batch_host ==
  HostBatch(lens_correction, "u8", PKD3, BatchShapes, "whole")
lens_correction_u8_pkd3_ROIS_host ==
  HostBatch(lens_correction, "u8", PKD3, BatchShapes, "one")
lens_correction_u8_pkd3_ROID_host ==
  HostBatch(lens_correction, "u8", PKD3, BatchShapes, "each")

lens_correction_functions == UNION {
  lens_correction_u8_pln1_single_gpu, lens_correction_u8_pln1_batch_gpu,
  lens_correction_u8_pln1_ROIS_gpu, lens_correction_u8_pln1_ROID_gpu,
  lens_correction_u8_pln3_single_gpu, lens_correction_u8_pln3_batch_gpu,
  lens_correction_u8_pln3_ROIS_gpu, lens_correction_u8_pln3_ROID_gpu,
  lens_correction_u8_pkd3_single_gpu, lens_correction_u8_pkd3_batch_gpu,
  lens_correction_u8_pkd3_ROIS_gpu, lens_correction_u8_pkd3_ROID_gpu,
  lens_correction_u8_pln1_single_host, lens_correction_u8_pln1_batch_host,
  lens_correction_u8_pln1_ROIS_host, lens_correction_u8_pln1_ROID_host,
  lens_correction_u8_pln3_single_host, lens_correction_u8_pln3_batch_host,
  lens_correction_u8_pln3_ROIS_host, lens_correction_u8_pln3_ROID_host,
  lens_correction_u8_pkd3_single_host, lens_correction_u8_pkd3_batch_host,
  lens_correction_u8_pkd3_ROIS_host, lens_correction_u8_pkd3_ROID_host}
-----------------------------------------------------------------------------
fisheye ==
  Operation("fisheye", {"dstPtr", "srcPtr"},
            <<>>,
            [OCL |-> fisheye_cl, HIP |-> fisheye_hip],
            [OCL |-> fisheye_cl_batch, HIP |-> fisheye_hip_batch])

fisheye_u8_pln1_single_gpu == GpuSingle(fisheye, "u8", PLN1)
fisheye_u8_pln1_batch_gpu ==
  GpuBatch(fisheye, "u8", PLN1, BatchShapes, "whole")
fisheye_u8_pln1_ROIS_gpu == GpuBatch(fisheye, "u8", PLN1, BatchShapes, "one")
fisheye_u8_pln1_ROID_gpu == GpuBatch(fisheye, "u8", PLN1, BatchShapes, "each")
fisheye_u8_pln3_single_gpu == GpuSingle(fisheye, "u8", PLN3)
fisheye_u8_pln3_batch_gpu ==
  GpuBatch(fisheye, "u8", PLN3, BatchShapes, "whole")
fisheye_u8_pln3_ROIS_gpu == GpuBatch(fisheye, "u8", PLN3, BatchShapes, "one")
fisheye_u8_pln3_ROID_gpu == GpuBatch(fisheye, "u8", PLN3, BatchShapes, "each")
fisheye_u8_pkd3_single_gpu == GpuSingle(fisheye, "u8", PKD3)
fisheye_u8_pkd3_batch_gpu ==
  GpuBatch(fisheye, "u8", PKD3, BatchShapes, "whole")
fisheye_u8_pkd3_ROIS_gpu == GpuBatch(fisheye, "u8", PKD3, BatchShapes, "one")
fisheye_u8_pkd3_ROID_gpu == GpuBatch(fisheye, "u8", PKD3, BatchShapes, "each")
fisheye_u8_pln1_single_host == HostSingle(fisheye, "u8", PLN1)
fisheye_u8_pln1_batch_host ==
  HostBatch(fisheye, "u8", PLN1, BatchShapes, "whole")
fisheye_u8_pln1_ROIS_host == HostBatch(fisheye, "u8", PLN1, BatchShapes, "one")
fisheye_u8_pln1_ROID_host ==
  HostBatch(fisheye, "u8", PLN1, BatchShapes, "each")
fisheye_u8_pln3_single_host == HostSingle(fisheye, "u8", PLN3)
fisheye_u8_pln3_batch_host ==
  HostBatch(fisheye, "u8", PLN3, BatchShapes, "whole")
fisheye_u8_pln3_ROIS_host == HostBatch(fisheye, "u8", PLN3, BatchShapes, "one")
fisheye_u8_pln3_ROID_host ==
  HostBatch(fisheye, "u8", PLN3, BatchShapes, "each")
fisheye_u8_pkd3_single_host == HostSingle(fisheye, "u8", PKD3)
fisheye_u8_pkd3_batch_host ==
  HostBatch(fisheye, "u8", PKD3, BatchShapes, "whole")
fisheye_u8_pkd3_ROIS_host == HostBatch(fisheye, "u8", PKD3, BatchShapes, "one")
fisheye_u8_pkd3_ROID_host ==
  HostBatch(fisheye, "u8", PKD3, BatchShapes, "each")

fisheye_functions == UNION {
  fisheye_u8_pln1_single_gpu, fisheye_u8_pln1_batch_gpu,
  fisheye_u8_pln1_ROIS_gpu, fisheye_u8_pln1_ROID_gpu,
  fisheye_u8_pln3_single_gpu, fisheye_u8_pln3_batch_gpu,
  fisheye_u8_pln3_ROIS_gpu, fisheye_u8_pln3_ROID_gpu,
  fisheye_u8_pkd3_single_gpu, fisheye_u8_pkd3_batch_gpu,
  fisheye_u8_pkd3_ROIS_gpu, fisheye_u8_pkd3_ROID_gpu,
  fisheye_u8_pln1_single_host, fisheye_u8_pln1_batch_host,
  fisheye_u8_pln1_ROIS_host, fisheye_u8_pln1_ROID_host,
  fisheye_u8_pln3_single_host, fisheye_u8_pln3_batch_host,
  fisheye_u8_pln3_ROIS_host, fisheye_u8_pln3_ROID_host,
  fisheye_u8_pkd3_single_host, fisheye_u8_pkd3_batch_host,
  fisheye_u8_pkd3_ROIS_host, fisheye_u8_pkd3_ROID_host}
-----------------------------------------------------------------------------
flip ==
  Operation("flip", {"dstPtr", "srcPtr"},
            <<P("flipAxis", "uintArr0")>>,
            [OCL |-> flip_cl, HIP |-> flip_hip],
            [OCL |-> flip_cl_batch, HIP |-> flip_hip_batch])

flip_u8_pln1_single_gpu == GpuSingle(flip, "u8", PLN1)
flip_u8_pln1_batch_gpu == GpuBatch(flip, "u8", PLN1, BatchShapes, "whole")
flip_u8_pln1_ROIS_gpu == GpuBatch(flip, "u8", PLN1, BatchShapes, "one")
flip_u8_pln1_ROID_gpu == GpuBatch(flip, "u8", PLN1, BatchShapes, "each")
flip_u8_pln3_single_gpu == GpuSingle(flip, "u8", PLN3)
flip_u8_pln3_batch_gpu == GpuBatch(flip, "u8", PLN3, BatchShapes, "whole")
flip_u8_pln3_ROIS_gpu == GpuBatch(flip, "u8", PLN3, BatchShapes, "one")
flip_u8_pln3_ROID_gpu == GpuBatch(flip, "u8", PLN3, BatchShapes, "each")
flip_u8_pkd3_single_gpu == GpuSingle(flip, "u8", PKD3)
flip_u8_pkd3_batch_gpu == GpuBatch(flip, "u8", PKD3, BatchShapes, "whole")
flip_u8_pkd3_ROIS_gpu == GpuBatch(flip, "u8", PKD3, BatchShapes, "one")
flip_u8_pkd3_ROID_gpu == GpuBatch(flip, "u8", PKD3, BatchShapes, "each")
flip_u8_pln1_single_host == HostSingle(flip, "u8", PLN1)
flip_u8_pln1_batch_host == HostBatch(flip, "u8", PLN1, BatchShapes, "whole")
flip_u8_pln1_ROIS_host == HostBatch(flip, "u8", PLN1, BatchShapes, "one")
flip_u8_pln1_ROID_host == HostBatch(flip, "u8", PLN1, BatchShapes, "each")
flip_u8_pln3_single_host == HostSingle(flip, "u8", PLN3)
flip_u8_pln3_batch_host == HostBatch(flip, "u8", PLN3, BatchShapes, "whole")
flip_u8_pln3_ROIS_host == HostBatch(flip, "u8", PLN3, BatchShapes, "one")
flip_u8_pln3_ROID_host == HostBatch(flip, "u8", PLN3, BatchShapes, "each")
flip_u8_pkd3_single_host == HostSingle(flip, "u8", PKD3)
flip_u8_pkd3_batch_host == HostBatch(flip, "u8", PKD3, BatchShapes, "whole")
flip_u8_pkd3_ROIS_host == HostBatch(flip, "u8", PKD3, BatchShapes, "one")
flip_u8_pkd3_ROID_host == HostBatch(flip, "u8", PKD3, BatchShapes, "each")

flip_functions == UNION {
  flip_u8_pln1_single_gpu, flip_u8_pln1_batch_gpu, flip_u8_pln1_ROIS_gpu,
  flip_u8_pln1_ROID_gpu, flip_u8_pln3_single_gpu, flip_u8_pln3_batch_gpu,
  flip_u8_pln3_ROIS_gpu, flip_u8_pln3_ROID_gpu, flip_u8_pkd3_single_gpu,
  flip_u8_pkd3_batch_gpu, flip_u8_pkd3_ROIS_gpu, flip_u8_pkd3_ROID_gpu,
  flip_u8_pln1_single_host, flip_u8_pln1_batch_host, flip_u8_pln1_ROIS_host,
  flip_u8_pln1_ROID_host, flip_u8_pln3_single_host, flip_u8_pln3_batch_host,
  flip_u8_pln3_ROIS_host, flip_u8_pln3_ROID_host, flip_u8_pkd3_single_host,
  flip_u8_pkd3_batch_host, flip_u8_pkd3_ROIS_host, flip_u8_pkd3_ROID_host}
-----------------------------------------------------------------------------
resize ==
  Resizing(
    Operation("resize", {"dstPtr", "srcPtr"},
              <<>>,
              [OCL |-> resize_cl, HIP |-> resize_hip],
              [OCL |-> resize_cl_batch, HIP |-> resize_hip_batch]))
resize_tensor ==
  Resizing(
    Operation("resize", {"dstPtr", "outputFormatToggle", "srcPtr"},
              <<>>,
              [OCL |-> Nothing, HIP |-> Nothing],
              [OCL |-> resize_cl_batch_tensor,
               HIP |-> resize_hip_batch_tensor]))
resize_helper(type, f, maxDstSize) ==
  GpuHelper(resize_tensor, type, f, "whole", maxDstSize)
resize_host_helper(type, f) ==
  HostBatch(resize_tensor, type, f, {"PD"}, "whole")

resize_u8_pln1_single_gpu == GpuSingle(resize, "u8", PLN1)
resize_u8_pln1_batch_gpu ==
  GpuBatch(resize, "u8", PLN1, BatchShapes \ {"PD"}, "whole")
resize_u8_pln1_batchPD_gpu == resize_helper("u8", PLN1, "maxSrcSize")
resize_u8_f16_pln1_batchPD_gpu == resize_helper("u8_f16", PLN1, "maxSrcSize")
resize_u8_f32_pln1_batchPD_gpu == resize_helper("u8_f32", PLN1, "maxSrcSize")
resize_u8_i8_pln1_batchPD_gpu == resize_helper("u8_i8", PLN1, "maxSrcSize")
resize_u8_pln1_ROIS_gpu == GpuBatch(resize, "u8", PLN1, BatchShapes, "one")
resize_u8_pln1_ROID_gpu == GpuBatch(resize, "u8", PLN1, BatchShapes, "each")
resize_u8_pln3_single_gpu == GpuSingle(resize, "u8", PLN3)
resize_u8_pln3_batch_gpu ==
  GpuBatch(resize, "u8", PLN3, BatchShapes \ {"PD"}, "whole")
resize_u8_pln3_batchPD_gpu == resize_helper("u8", PLN3, "maxSrcSize")
resize_u8_f16_pln3_batchPD_gpu == resize_helper("u8_f16", PLN3, "maxSrcSize")
resize_u8_f32_pln3_batchPD_gpu == resize_helper("u8_f32", PLN3, "maxSrcSize")
resize_u8_i8_pln3_batchPD_gpu == resize_helper("u8_i8", PLN3, "maxSrcSize")
resize_u8_pln3_ROIS_gpu == GpuBatch(resize, "u8", PLN3, BatchShapes, "one")
resize_u8_pln3_ROID_gpu == GpuBatch(resize, "u8", PLN3, BatchShapes, "each")
resize_u8_pkd3_single_gpu == GpuSingle(resize, "u8", PKD3)
resize_u8_pkd3_batch_gpu ==
  GpuBatch(resize, "u8", PKD3, BatchShapes \ {"PD"}, "whole")
resize_u8_pkd3_batchPD_gpu == resize_helper("u8", PKD3, "maxDstSize")
resize_u8_f32_pkd3_batchPD_gpu == resize_helper("u8_f32", PKD3, "maxSrcSize")
resize_u8_f16_pkd3_batchPD_gpu == resize_helper("u8_f16", PKD3, "maxSrcSize")
resize_u8_i8_pkd3_batchPD_gpu == resize_helper("u8_i8", PKD3, "maxSrcSize")
resize_f32_pkd3_batchPD_gpu == resize_helper("f32", PKD3, "maxSrcSize")
resize_f16_pkd3_batchPD_gpu == resize_helper("f16", PKD3, "maxSrcSize")
resize_f32_pln3_batchPD_gpu == resize_helper("f32", PLN3, "maxSrcSize")
resize_f16_pln3_batchPD_gpu == resize_helper("f16", PLN3, "maxSrcSize")
resize_f32_pln1_batchPD_gpu == resize_helper("f32", PLN1, "maxSrcSize")
resize_f16_pln1_batchPD_gpu == resize_helper("f16", PLN1, "maxSrcSize")
resize_i8_pln1_batchPD_gpu == resize_helper("i8", PLN1, "maxSrcSize")
resize_i8_pln3_batchPD_gpu == resize_helper("i8", PLN3, "maxSrcSize")
resize_i8_pkd3_batchPD_gpu == resize_helper("i8", PKD3, "maxSrcSize")
resize_u8_pkd3_ROIS_gpu == GpuBatch(resize, "u8", PKD3, BatchShapes, "one")
resize_u8_pkd3_ROID_gpu == GpuBatch(resize, "u8", PKD3, BatchShapes, "each")
resize_u8_pln1_single_host == HostSingle(resize, "u8", PLN1)
resize_u8_pln1_batch_host ==
  HostBatch(resize, "u8", PLN1, BatchShapes \ {"PD"}, "whole")
resize_u8_pln1_batchPD_host == resize_host_helper("u8", PLN1)
resize_u8_pln1_ROIS_host == HostBatch(resize, "u8", PLN1, BatchShapes, "one")
resize_u8_pln1_ROID_host == HostBatch(resize, "u8", PLN1, BatchShapes, "each")
resize_u8_pln3_single_host == HostSingle(resize, "u8", PLN3)
resize_u8_pln3_batch_host ==
  HostBatch(resize, "u8", PLN3, BatchShapes \ {"PD"}, "whole")
resize_u8_pln3_batchPD_host == resize_host_helper("u8", PLN3)
resize_u8_pln3_ROIS_host == HostBatch(resize, "u8", PLN3, BatchShapes, "one")
resize_u8_pln3_ROID_host == HostBatch(resize, "u8", PLN3, BatchShapes, "each")
resize_u8_pkd3_single_host == HostSingle(resize, "u8", PKD3)
resize_u8_pkd3_batch_host ==
  HostBatch(resize, "u8", PKD3, BatchShapes \ {"PD"}, "whole")
resize_u8_pkd3_batchPD_host == resize_host_helper("u8", PKD3)
resize_u8_pkd3_ROIS_host == HostBatch(resize, "u8", PKD3, BatchShapes, "one")
resize_u8_pkd3_ROID_host == HostBatch(resize, "u8", PKD3, BatchShapes, "each")
resize_f16_pln1_batchPD_host == resize_host_helper("f16", PLN1)
resize_f16_pln3_batchPD_host == resize_host_helper("f16", PLN3)
resize_f16_pkd3_batchPD_host == resize_host_helper("f16", PKD3)
resize_f32_pln1_batchPD_host == resize_host_helper("f32", PLN1)
resize_f32_pln3_batchPD_host == resize_host_helper("f32", PLN3)
resize_f32_pkd3_batchPD_host == resize_host_helper("f32", PKD3)
resize_u8_f16_pln1_batchPD_host == resize_host_helper("u8_f16", PLN1)
resize_u8_f16_pln3_batchPD_host == resize_host_helper("u8_f16", PLN3)
resize_u8_f16_pkd3_batchPD_host == resize_host_helper("u8_f16", PKD3)
resize_u8_f32_pln1_batchPD_host == resize_host_helper("u8_f32", PLN1)
resize_u8_f32_pln3_batchPD_host == resize_host_helper("u8_f32", PLN3)
resize_u8_f32_pkd3_batchPD_host == resize_host_helper("u8_f32", PKD3)
resize_i8_pln1_batchPD_host == resize_host_helper("i8", PLN1)
resize_i8_pln3_batchPD_host == resize_host_helper("i8", PLN3)
resize_i8_pkd3_batchPD_host == resize_host_helper("i8", PKD3)
resize_u8_i8_pln1_batchPD_host == resize_host_helper("u8_i8", PLN1)
resize_u8_i8_pln3_batchPD_host == resize_host_helper("u8_i8", PLN3)
resize_u8_i8_pkd3_batchPD_host == resize_host_helper("u8_i8", PKD3)

resize_functions == UNION {
  resize_u8_pln1_single_gpu, resize_u8_pln1_batch_gpu,
  resize_u8_pln1_batchPD_gpu, resize_u8_f16_pln1_batchPD_gpu,
  resize_u8_f32_pln1_batchPD_gpu, resize_u8_i8_pln1_batchPD_gpu,
  resize_u8_pln1_ROIS_gpu, resize_u8_pln1_ROID_gpu, resize_u8_pln3_single_gpu,
  resize_u8_pln3_batch_gpu, resize_u8_pln3_batchPD_gpu,
  resize_u8_f16_pln3_batchPD_gpu, resize_u8_f32_pln3_batchPD_gpu,
  resize_u8_i8_pln3_batchPD_gpu, resize_u8_pln3_ROIS_gpu,
  resize_u8_pln3_ROID_gpu, resize_u8_pkd3_single_gpu, resize_u8_pkd3_batch_gpu,
  resize_u8_pkd3_batchPD_gpu, resize_u8_f32_pkd3_batchPD_gpu,
  resize_u8_f16_pkd3_batchPD_gpu, resize_u8_i8_pkd3_batchPD_gpu,
  resize_f32_pkd3_batchPD_gpu, resize_f16_pkd3_batchPD_gpu,
  resize_f32_pln3_batchPD_gpu, resize_f16_pln3_batchPD_gpu,
  resize_f32_pln1_batchPD_gpu, resize_f16_pln1_batchPD_gpu,
  resize_i8_pln1_batchPD_gpu, resize_i8_pln3_batchPD_gpu,
  resize_i8_pkd3_batchPD_gpu, resize_u8_pkd3_ROIS_gpu, resize_u8_pkd3_ROID_gpu,
  resize_u8_pln1_single_host, resize_u8_pln1_batch_host,
  resize_u8_pln1_batchPD_host, resize_u8_pln1_ROIS_host,
  resize_u8_pln1_ROID_host, resize_u8_pln3_single_host,
  resize_u8_pln3_batch_host, resize_u8_pln3_batchPD_host,
  resize_u8_pln3_ROIS_host, resize_u8_pln3_ROID_host,
  resize_u8_pkd3_single_host, resize_u8_pkd3_batch_host,
  resize_u8_pkd3_batchPD_host, resize_u8_pkd3_ROIS_host,
  resize_u8_pkd3_ROID_host, resize_f16_pln1_batchPD_host,
  resize_f16_pln3_batchPD_host, resize_f16_pkd3_batchPD_host,
  resize_f32_pln1_batchPD_host, resize_f32_pln3_batchPD_host,
  resize_f32_pkd3_batchPD_host, resize_u8_f16_pln1_batchPD_host,
  resize_u8_f16_pln3_batchPD_host, resize_u8_f16_pkd3_batchPD_host,
  resize_u8_f32_pln1_batchPD_host, resize_u8_f32_pln3_batchPD_host,
  resize_u8_f32_pkd3_batchPD_host, resize_i8_pln1_batchPD_host,
  resize_i8_pln3_batchPD_host, resize_i8_pkd3_batchPD_host,
  resize_u8_i8_pln1_batchPD_host, resize_u8_i8_pln3_batchPD_host,
  resize_u8_i8_pkd3_batchPD_host}
-----------------------------------------------------------------------------
GeometryTransformsFunctions ==
  UNION {lens_correction_functions, fisheye_functions, flip_functions,
    resize_functions}
=============================================================================
