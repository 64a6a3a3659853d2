--------------------------- MODULE FusedFunctions ---------------------------
(***************************************************************************)
(* The entry points of the fused functions                                 *)
(* (rppi_fused_functions.cpp):                                             *)
(* for each operation its record, its helpers, one definition for each     *)
(* family of functions that the source keeps together, and their union.    *)
(***************************************************************************)
EXTENDS EntryPointShapes, OclWrappers, HipWrappers
-----------------------------------------------------------------------------
color_twist ==
  HostIgnoring({"roiPoints"},
    Operation("color_twist", {"dstPtr", "srcPtr"},
              <<P("alpha", "floatArr0"), P("beta", "floatArr1"), P("hueShift",
                "floatArr2"), P("saturationFactor", "floatArr3")>>,
              [OCL |-> color_twist_cl, HIP |-> color_twist_hip],
              [OCL |-> color_twist_cl_batch, HIP |-> color_twist_hip_batch]))
color_twist_tensor ==
  Operation("color_twist", {"dstPtr", "outputFormatToggle", "srcPtr"},
            <<P("alpha", "floatArr0"), P("beta", "floatArr1"), P("hueShift",
              "floatArr2"), P("saturationFactor", "floatArr3")>>,
            [OCL |-> Nothing, HIP |-> Nothing],
            [OCL |-> color_twist_cl_batch_tensor,
             HIP |-> color_twist_hip_batch_tensor])
color_twist_helper(type, f) ==
  GpuHelper(color_twist_tensor, type, f, "whole", "maxSrcSize")
color_twist_host_helper(type, f) ==
  HostBatch(color_twist_tensor, type, f, {"PD"}, "whole")

color_twist_u8_pln1_single_gpu == GpuSingle(color_twist, "u8", PLN1)
color_twist_u8_pln1_batch_gpu ==
  GpuBatch(color_twist, "u8", PLN1, BatchShapes \ {"PD"}, "whole")
color_twist_u8_pln1_batchPD_gpu == color_twist_helper("u8", PLN1)
color_twist_u8_pln1_ROIS_gpu ==
  GpuBatch(color_twist, "u8", PLN1, BatchShapes, "one")
color_twist_u8_pln1_ROID_gpu ==
  GpuBatch(color_twist, "u8", PLN1, BatchShapes, "each")
color_twist_u8_pln3_single_gpu == GpuSingle(color_twist, "u8", PLN3)
color_twist_u8_pln3_batch_gpu ==
  GpuBatch(color_twist, "u8", PLN3, BatchShapes \ {"PD"}, "whole")
color_twist_u8_pln3_batchPD_gpu == color_twist_helper("u8", PLN3)
color_twist_u8_pln3_ROIS_gpu ==
  GpuBatch(color_twist, "u8", PLN3, BatchShapes, "one")
color_twist_u8_pln3_ROID_gpu ==
  GpuBatch(color_twist, "u8", PLN3, BatchShapes, "each")
color_twist_u8_pkd3_single_gpu == GpuSingle(color_twist, "u8", PKD3)
color_twist_u8_pkd3_batch_gpu ==
  GpuBatch(color_twist, "u8", PKD3, BatchShapes \ {"PD"}, "whole")
color_twist_u8_pkd3_batchPD_gpu == color_twist_helper("u8", PKD3)
color_twist_u8_pkd3_ROIS_gpu ==
  GpuBatch(color_twist, "u8", PKD3, BatchShapes, "one")
color_twist_u8_pkd3_ROID_gpu ==
  GpuBatch(color_twist, "u8", PKD3, BatchShapes, "each")
color_twist_f16_pln1_batchPD_gpu == color_twist_helper("f16", PLN1)
color_twist_f16_pln3_batchPD_gpu == color_twist_helper("f16", PLN3)
color_twist_f16_pkd3_batchPD_gpu == color_twist_helper("f16", PKD3)
color_twist_f32_pln1_batchPD_gpu == color_twist_helper("f32", PLN1)
color_twist_f32_pln3_batchPD_gpu == color_twist_helper("f32", PLN3)
color_twist_f32_pkd3_batchPD_gpu == color_twist_helper("f32", PKD3)
color_twist_i8_pln1_batchPD_gpu == color_twist_helper("i8", PLN1)
color_twist_i8_pln3_batchPD_gpu == color_twist_helper("i8", PLN3)
color_twist_i8_pkd3_batchPD_gpu == color_twist_helper("i8", PKD3)
color_twist_u8_pln1_single_host == HostSingle(color_twist, "u8", PLN1)
color_twist_u8_pln1_batch_host ==
  HostBatch(color_twist, "u8", PLN1, BatchShapes \ {"PD"}, "whole")
color_twist_u8_pln1_batchPD_host == color_twist_host_helper("u8", PLN1)
color_twist_u8_pln1_ROIS_host ==
  HostBatch(color_twist, "u8", PLN1, BatchShapes, "one")
color_twist_u8_pln1_ROID_host ==
  HostBatch(color_twist, "u8", PLN1, BatchShapes, "each")
color_twist_u8_pln3_single_host == HostSingle(color_twist, "u8", PLN3)
color_twist_u8_pln3_batch_host ==
  HostBatch(color_twist, "u8", PLN3, BatchShapes \ {"PD"}, "whole")
color_twist_u8_pln3_batchPD_host == color_twist_host_helper("u8", PLN3)
color_twist_u8_pln3_ROIS_host ==
  HostBatch(color_twist, "u8", PLN3, BatchShapes, "one")
color_twist_u8_pln3_ROID_host ==
  HostBatch(color_twist, "u8", PLN3, BatchShapes, "each")
color_twist_u8_pkd3_single_host == HostSingle(color_twist, "u8", PKD3)
color_twist_u8_pkd3_batch_host ==
  HostBatch(color_twist, "u8", PKD3, BatchShapes \ {"PD"}, "whole")
color_twist_u8_pkd3_batchPD_host == color_twist_host_helper("u8", PKD3)
color_twist_u8_pkd3_ROIS_host ==
  HostBatch(color_twist, "u8", PKD3, BatchShapes, "one")
color_twist_u8_pkd3_ROID_host ==
  HostBatch(color_twist, "u8", PKD3, BatchShapes, "each")
color_twist_f16_pln3_batchPD_host == color_twist_host_helper("f16", PLN3)
color_twist_f16_pkd3_batchPD_host == color_twist_host_helper("f16", PKD3)
color_twist_f32_pln3_batchPD_host == color_twist_host_helper("f32", PLN3)
color_twist_f32_pkd3_batchPD_host == color_twist_host_helper("f32", PKD3)
color_twist_i8_pln3_batchPD_host == color_twist_host_helper("i8", PLN3)
color_twist_i8_pkd3_batchPD_host == color_twist_host_helper("i8", PKD3)

color_twist_functions == UNION {
  color_twist_u8_pln1_single_gpu, color_twist_u8_pln1_batch_gpu,
  color_twist_u8_pln1_batchPD_gpu, color_twist_u8_pln1_ROIS_gpu,
  color_twist_u8_pln1_ROID_gpu, color_twist_u8_pln3_single_gpu,
  color_twist_u8_pln3_batch_gpu, color_twist_u8_pln3_batchPD_gpu,
  color_twist_u8_pln3_ROIS_gpu, color_twist_u8_pln3_ROID_gpu,
  color_twist_u8_pkd3_single_gpu, color_twist_u8_pkd3_batch_gpu,
  color_twist_u8_pkd3_batchPD_gpu, color_twist_u8_pkd3_ROIS_gpu,
  color_twist_u8_pkd3_ROID_gpu, color_twist_f16_pln1_batchPD_gpu,
  color_twist_f16_pln3_batchPD_gpu, color_twist_f16_pkd3_batchPD_gpu,
  color_twist_f32_pln1_batchPD_gpu, color_twist_f32_pln3_batchPD_gpu,
  color_twist_f32_pkd3_batchPD_gpu, color_twist_i8_pln1_batchPD_gpu,
  color_twist_i8_pln3_batchPD_gpu, color_twist_i8_pkd3_batchPD_gpu,
  color_twist_u8_pln1_single_host, color_twist_u8_pln1_batch_host,
  color_twist_u8_pln1_batchPD_host, color_twist_u8_pln1_ROIS_host,
  color_twist_u8_pln1_ROID_host, color_twist_u8_pln3_single_host,
  color_twist_u8_pln3_batch_host, color_twist_u8_pln3_batchPD_host,
  color_twist_u8_pln3_ROIS_host, color_twist_u8_pln3_ROID_host,
  color_twist_u8_pkd3_single_host, color_twist_u8_pkd3_batch_host,
  color_twist_u8_pkd3_batchPD_host, color_twist_u8_pkd3_ROIS_host,
  color_twist_u8_pkd3_ROID_host, color_twist_f16_pln3_batchPD_host,
  color_twist_f16_pkd3_batchPD_host, color_twist_f32_pln3_batchPD_host,
  color_twist_f32_pkd3_batchPD_host, color_twist_i8_pln3_batchPD_host,
  color_twist_i8_pkd3_batchPD_host}
-----------------------------------------------------------------------------
crop_mirror_normalize ==
  Resizing(ThreePlanes(
    Operation("crop_mirror_normalize",
              {"crop_pos_x", "crop_pos_y", "dstPtr", "mean", "mirrorFlag",
               "output_format_toggle", "srcPtr", "std_dev"},
              <<>>,
              [OCL |-> crop_mirror_normalize_cl,
               HIP |-> crop_mirror_normalize_hip],
              [OCL |-> Nothing, HIP |-> Nothing])))
\* Arguments that the host functions spell otherwise have one name here.
crop_mirror_normalize_tensor ==
  HostIgnoring({"srcSize"}, Resizing(
    Operation("crop_mirror_normalize",
              {"dstPtr", "output_format_toggle", "srcPtr"},
              <<P("crop_pos_x", "uintArr0"), P("crop_pos_y", "uintArr1"),
                P("mean", "floatArr2"), P("std_dev", "floatArr3"),
                P("mirrorFlag", "uintArr4")>>,
              [OCL |-> Nothing, HIP |-> Nothing],
              [OCL |-> crop_mirror_normalize_cl_batch,
               HIP |-> crop_mirror_normalize_hip_batch_tensor])))
crop_mirror_normalize_helper(type, f) ==
  GpuHelper(crop_mirror_normalize_tensor, type, f, "none", "maxDstSize")
\* crop_mirror_normalize_u8_i8_host_batch is the one that reads the sizes.
crop_mirror_normalize_host_helper(type, f) ==
  LET o == IF type = "u8_i8"
           THEN HostIgnoring({}, crop_mirror_normalize_tensor)
           ELSE crop_mirror_normalize_tensor
  IN HostBatch(o, type, f, {"PD"}, "none")

crop_mirror_normalize_u8_pln1_gpu ==
  GpuPlain(crop_mirror_normalize, "u8", PLN1)
crop_mirror_normalize_u8_pln3_gpu ==
  GpuPlain(crop_mirror_normalize, "u8", PLN3)
crop_mirror_normalize_u8_pkd3_gpu ==
  GpuPlain(crop_mirror_normalize, "u8", PKD3)
crop_mirror_normalize_u8_pkd3_batchPD_gpu ==
  crop_mirror_normalize_helper("u8", PKD3)
crop_mirror_normalize_f32_pkd3_batchPD_gpu ==
  crop_mirror_normalize_helper("f32", PKD3)
crop_mirror_normalize_f16_pkd3_batchPD_gpu ==
  crop_mirror_normalize_helper("f16", PKD3)
crop_mirror_normalize_u8_pln3_batchPD_gpu ==
  crop_mirror_normalize_helper("u8", PLN3)
crop_mirror_normalize_f32_pln3_batchPD_gpu ==
  crop_mirror_normalize_helper("f32", PLN3)
crop_mirror_normalize_f16_pln3_batchPD_gpu ==
  crop_mirror_normalize_helper("f16", PLN3)
crop_mirror_normalize_u8_pln1_batchPD_gpu ==
  crop_mirror_normalize_helper("u8", PLN1)
crop_mirror_normalize_f32_pln1_batchPD_gpu ==
  crop_mirror_normalize_helper("f32", PLN1)
crop_mirror_normalize_f16_pln1_batchPD_gpu ==
  crop_mirror_normalize_helper("f16", PLN1)
crop_mirror_normalize_i8_pln1_batchPD_gpu ==
  crop_mirror_normalize_helper("i8", PLN1)
crop_mirror_normalize_i8_pln3_batchPD_gpu ==
  crop_mirror_normalize_helper("i8", PLN3)
crop_mirror_normalize_i8_pkd3_batchPD_gpu ==
  crop_mirror_normalize_helper("i8", PKD3)
crop_mirror_normalize_u8_i8_pln1_batchPD_gpu ==
  crop_mirror_normalize_helper("u8_i8", PLN1)
crop_mirror_normalize_u8_i8_pln3_batchPD_gpu ==
  crop_mirror_normalize_helper("u8_i8", PLN3)
crop_mirror_normalize_u8_i8_pkd3_batchPD_gpu ==
  crop_mirror_normalize_helper("u8_i8", PKD3)
crop_mirror_normalize_u8_f32_pln1_batchPD_gpu ==
  crop_mirror_normalize_helper("u8_f32", PLN1)
crop_mirror_normalize_u8_f32_pln3_batchPD_gpu ==
  crop_mirror_normalize_helper("u8_f32", PLN3)
crop_mirror_normalize_u8_f32_pkd3_batchPD_gpu ==
  crop_mirror_normalize_helper("u8_f32", PKD3)
crop_mirror_normalize_u8_f16_pln1_batchPD_gpu ==
  crop_mirror_normalize_helper("u8_f16", PLN1)
crop_mirror_normalize_u8_f16_pln3_batchPD_gpu ==
  crop_mirror_normalize_helper("u8_f16", PLN3)
crop_mirror_normalize_u8_f16_pkd3_batchPD_gpu ==
  crop_mirror_normalize_helper("u8_f16", PKD3)
crop_mirror_normalize_u8_pln1_host ==
  HostPlain(crop_mirror_normalize, "u8", PLN1)
crop_mirror_normalize_u8_pln3_host ==
  HostPlain(crop_mirror_normalize, "u8", PLN3)
crop_mirror_normalize_u8_pkd3_host ==
  HostPlain(crop_mirror_normalize, "u8", PKD3)
crop_mirror_normalize_u8_pln1_batchPD_host ==
  crop_mirror_normalize_host_helper("u8", PLN1)
crop_mirror_normalize_u8_pln3_batchPD_host ==
  crop_mirror_normalize_host_helper("u8", PLN3)
crop_mirror_normalize_u8_pkd3_batchPD_host ==
  crop_mirror_normalize_host_helper("u8", PKD3)
crop_mirror_normalize_f16_pln1_batchPD_host ==
  crop_mirror_normalize_host_helper("f16", PLN1)
crop_mirror_normalize_f16_pln3_batchPD_host ==
  crop_mirror_normalize_host_helper("f16", PLN3)
crop_mirror_normalize_f16_pkd3_batchPD_host ==
  crop_mirror_normalize_host_helper("f16", PKD3)
crop_mirror_normalize_f32_pln1_batchPD_host ==
  crop_mirror_normalize_host_helper("f32", PLN1)
crop_mirror_normalize_f32_pln3_batchPD_host ==
  crop_mirror_normalize_host_helper("f32", PLN3)
crop_mirror_normalize_f32_pkd3_batchPD_host ==
  crop_mirror_normalize_host_helper("f32", PKD3)
crop_mirror_normalize_u8_f16_pln1_batchPD_host ==
  crop_mirror_normalize_host_helper("u8_f16", PLN1)
crop_mirror_normalize_u8_f16_pln3_batchPD_host ==
  crop_mirror_normalize_host_helper("u8_f16", PLN3)
crop_mirror_normalize_u8_f16_pkd3_batchPD_host ==
  crop_mirror_normalize_host_helper("u8_f16", PKD3)
crop_mirror_normalize_u8_f32_pln1_batchPD_host ==
  crop_mirror_normalize_host_helper("u8_f32", PLN1)
crop_mirror_normalize_u8_f32_pln3_batchPD_host ==
  crop_mirror_normalize_host_helper("u8_f32", PLN3)
crop_mirror_normalize_u8_f32_pkd3_batchPD_host ==
  crop_mirror_normalize_host_helper("u8_f32", PKD3)
crop_mirror_normalize_i8_pln1_batchPD_host ==
  crop_mirror_normalize_host_helper("i8", PLN1)
crop_mirror_normalize_i8_pln3_batchPD_host ==
  crop_mirror_normalize_host_helper("i8", PLN3)
crop_mirror_normalize_i8_pkd3_batchPD_host ==
  crop_mirror_normalize_host_helper("i8", PKD3)
crop_mirror_normalize_u8_i8_pln1_batchPD_host ==
  crop_mirror_normalize_host_helper("u8_i8", PLN1)
crop_mirror_normalize_u8_i8_pln3_batchPD_host ==
  crop_mirror_normalize_host_helper("u8_i8", PLN3)
crop_mirror_normalize_u8_i8_pkd3_batchPD_host ==
  crop_mirror_normalize_host_helper("u8_i8", PKD3)

crop_mirror_normalize_functions == UNION {
  crop_mirror_normalize_u8_pln1_gpu, crop_mirror_normalize_u8_pln3_gpu,
  crop_mirror_normalize_u8_pkd3_gpu, crop_mirror_normalize_u8_pkd3_batchPD_gpu,
  crop_mirror_normalize_f32_pkd3_batchPD_gpu,
  crop_mirror_normalize_f16_pkd3_batchPD_gpu,
  crop_mirror_normalize_u8_pln3_batchPD_gpu,
  crop_mirror_normalize_f32_pln3_batchPD_gpu,
  crop_mirror_normalize_f16_pln3_batchPD_gpu,
  crop_mirror_normalize_u8_pln1_batchPD_gpu,
  crop_mirror_normalize_f32_pln1_batchPD_gpu,
  crop_mirror_normalize_f16_pln1_batchPD_gpu,
  crop_mirror_normalize_i8_pln1_batchPD_gpu,
  crop_mirror_normalize_i8_pln3_batchPD_gpu,
  crop_mirror_normalize_i8_pkd3_batchPD_gpu,
  crop_mirror_normalize_u8_i8_pln1_batchPD_gpu,
  crop_mirror_normalize_u8_i8_pln3_batchPD_gpu,
  crop_mirror_normalize_u8_i8_pkd3_batchPD_gpu,
  crop_mirror_normalize_u8_f32_pln1_batchPD_gpu,
  crop_mirror_normalize_u8_f32_pln3_batchPD_gpu,
  crop_mirror_normalize_u8_f32_pkd3_batchPD_gpu,
  crop_mirror_normalize_u8_f16_pln1_batchPD_gpu,
  crop_mirror_normalize_u8_f16_pln3_batchPD_gpu,
  crop_mirror_normalize_u8_f16_pkd3_batchPD_gpu,
  crop_mirror_normalize_u8_pln1_host, crop_mirror_normalize_u8_pln3_host,
  crop_mirror_normalize_u8_pkd3_host,
  crop_mirror_normalize_u8_pln1_batchPD_host,
  crop_mirror_normalize_u8_pln3_batchPD_host,
  crop_mirror_normalize_u8_pkd3_batchPD_host,
  crop_mirror_normalize_f16_pln1_batchPD_host,
  crop_mirror_normalize_f16_pln3_batchPD_host,
  crop_mirror_normalize_f16_pkd3_batchPD_host,
  crop_mirror_normalize_f32_pln1_batchPD_host,
  crop_mirror_normalize_f32_pln3_batchPD_host,
  crop_mirror_normalize_f32_pkd3_batchPD_host,
  crop_mirror_normalize_u8_f16_pln1_batchPD_host,
  crop_mirror_normalize_u8_f16_pln3_batchPD_host,
  crop_mirror_normalize_u8_f16_pkd3_batchPD_host,
  crop_mirror_normalize_u8_f32_pln1_batchPD_host,
  crop_mirror_normalize_u8_f32_pln3_batchPD_host,
  crop_mirror_normalize_u8_f32_pkd3_batchPD_host,
  crop_mirror_normalize_i8_pln1_batchPD_host,
  crop_mirror_normalize_i8_pln3_batchPD_host,
  crop_mirror_normalize_i8_pkd3_batchPD_host,
  crop_mirror_normalize_u8_i8_pln1_batchPD_host,
  crop_mirror_normalize_u8_i8_pln3_batchPD_host,
  crop_mirror_normalize_u8_i8_pkd3_batchPD_host}
-----------------------------------------------------------------------------
\* Arguments that the host functions spell otherwise have one name here.
crop ==
  HostIgnoring({"srcSize"}, Resizing(
    Operation("crop", {"dstPtr", "output_format_toggle", "srcPtr"},
              <<P("crop_pos_x", "uintArr0"), P("crop_pos_y", "uintArr1")>>,
              [OCL |-> Nothing, HIP |-> Nothing],
              [OCL |-> crop_cl_batch, HIP |-> crop_hip_batch_tensor])))
crop_helper(type, f) ==
  GpuHelper(crop, type, f, "none", "maxDstSize")
crop_host_helper(type, f) ==
  HostBatch(crop, type, f, {"PD"}, "none")

crop_u8_pln1_batchPD_gpu == crop_helper("u8", PLN1)
crop_u8_pln3_batchPD_gpu == crop_helper("u8", PLN3)
crop_u8_pkd3_batchPD_gpu == crop_helper("u8", PKD3)
crop_f16_pln1_batchPD_gpu == crop_helper("f16", PLN1)
crop_f16_pln3_batchPD_gpu == crop_helper("f16", PLN3)
crop_f16_pkd3_batchPD_gpu == crop_helper("f16", PKD3)
crop_f32_pln1_batchPD_gpu == crop_helper("f32", PLN1)
crop_f32_pln3_batchPD_gpu == crop_helper("f32", PLN3)
crop_f32_pkd3_batchPD_gpu == crop_helper("f32", PKD3)
crop_i8_pln1_batchPD_gpu == crop_helper("i8", PLN1)
crop_i8_pln3_batchPD_gpu == crop_helper("i8", PLN3)
crop_i8_pkd3_batchPD_gpu == crop_helper("i8", PKD3)
crop_u8_i8_pln1_batchPD_gpu == crop_helper("u8_i8", PLN1)
crop_u8_i8_pln3_batchPD_gpu == crop_helper("u8_i8", PLN3)
crop_u8_i8_pkd3_batchPD_gpu == crop_helper("u8_i8", PKD3)
crop_u8_f32_pln1_batchPD_gpu == crop_helper("u8_f32", PLN1)
crop_u8_f32_pln3_batchPD_gpu == crop_helper("u8_f32", PLN3)
crop_u8_f32_pkd3_batchPD_gpu == crop_helper("u8_f32", PKD3)
crop_u8_f16_pln1_batchPD_gpu == crop_helper("u8_f16", PLN1)
crop_u8_f16_pln3_batchPD_gpu == crop_helper("u8_f16", PLN3)
crop_u8_f16_pkd3_batchPD_gpu == crop_helper("u8_f16", PKD3)
crop_u8_pln1_batchPD_host == crop_host_helper("u8", PLN1)
crop_u8_pln3_batchPD_host == crop_host_helper("u8", PLN3)
crop_u8_pkd3_batchPD_host == crop_host_helper("u8", PKD3)
crop_f16_pln1_batchPD_host == crop_host_helper("f16", PLN1)
crop_f16_pln3_batchPD_host == crop_host_helper("f16", PLN3)
crop_f16_pkd3_batchPD_host == crop_host_helper("f16", PKD3)
crop_f32_pln1_batchPD_host == crop_host_helper("f32", PLN1)
crop_f32_pln3_batchPD_host == crop_host_helper("f32", PLN3)
crop_f32_pkd3_batchPD_host == crop_host_helper("f32", PKD3)
crop_u8_f16_pln1_batchPD_host == crop_host_helper("u8_f16", PLN1)
crop_u8_f16_pln3_batchPD_host == crop_host_helper("u8_f16", PLN3)
crop_u8_f16_pkd3_batchPD_host == crop_host_helper("u8_f16", PKD3)
crop_u8_f32_pln1_batchPD_host == crop_host_helper("u8_f32", PLN1)
crop_u8_f32_pln3_batchPD_host == crop_host_helper("u8_f32", PLN3)
crop_u8_f32_pkd3_batchPD_host == crop_host_helper("u8_f32", PKD3)
crop_i8_pln1_batchPD_host == crop_host_helper("i8", PLN1)
crop_i8_pln3_batchPD_host == crop_host_helper("i8", PLN3)
crop_i8_pkd3_batchPD_host == crop_host_helper("i8", PKD3)
crop_u8_i8_pln1_batchPD_host == crop_host_helper("u8_i8", PLN1)
crop_u8_i8_pln3_batchPD_host == crop_host_helper("u8_i8", PLN3)
crop_u8_i8_pkd3_batchPD_host == crop_host_helper("u8_i8", PKD3)

crop_functions == UNION {
  crop_u8_pln1_batchPD_gpu, crop_u8_pln3_batchPD_gpu, crop_u8_pkd3_batchPD_gpu,
  crop_f16_pln1_batchPD_gpu, crop_f16_pln3_batchPD_gpu,
  crop_f16_pkd3_batchPD_gpu, crop_f32_pln1_batchPD_gpu,
  crop_f32_pln3_batchPD_gpu, crop_f32_pkd3_batchPD_gpu,
  crop_i8_pln1_batchPD_gpu, crop_i8_pln3_batchPD_gpu, crop_i8_pkd3_batchPD_gpu,
  crop_u8_i8_pln1_batchPD_gpu, crop_u8_i8_pln3_batchPD_gpu,
  crop_u8_i8_pkd3_batchPD_gpu, crop_u8_f32_pln1_batchPD_gpu,
  crop_u8_f32_pln3_batchPD_gpu, crop_u8_f32_pkd3_batchPD_gpu,
  crop_u8_f16_pln1_batchPD_gpu, crop_u8_f16_pln3_batchPD_gpu,
  crop_u8_f16_pkd3_batchPD_gpu, crop_u8_pln1_batchPD_host,
  crop_u8_pln3_batchPD_host, crop_u8_pkd3_batchPD_host,
  crop_f16_pln1_batchPD_host, crop_f16_pln3_batchPD_host,
  crop_f16_pkd3_batchPD_host, crop_f32_pln1_batchPD_host,
  crop_f32_pln3_batchPD_host, crop_f32_pkd3_batchPD_host,
  crop_u8_f16_pln1_batchPD_host, crop_u8_f16_pln3_batchPD_host,
  crop_u8_f16_pkd3_batchPD_host, crop_u8_f32_pln1_batchPD_host,
  crop_u8_f32_pln3_batchPD_host, crop_u8_f32_pkd3_batchPD_host,
  crop_i8_pln1_batchPD_host, crop_i8_pln3_batchPD_host,
  crop_i8_pkd3_batchPD_host, crop_u8_i8_pln1_batchPD_host,
  crop_u8_i8_pln3_batchPD_host, crop_u8_i8_pkd3_batchPD_host}
-----------------------------------------------------------------------------
resize_crop_mirror ==
  Resizing(
    Operation("resize_crop_mirror", {"dstPtr", "outputFormatToggle", "srcPtr"},
              <<P("xRoiBegin", "uintArr0"), P("xRoiEnd", "uintArr1"),
                P("yRoiBegin", "uintArr2"), P("yRoiEnd", "uintArr3"),
                P("mirrorFlag", "uintArr4")>>,
              [OCL |-> Nothing, HIP |-> Nothing],
              [OCL |-> resize_crop_mirror_cl_batch,
               HIP |-> resize_crop_mirror_hip_batch_tensor]))
resize_crop_mirror_helper(type, f, xRoiEnd) ==
  LET o == [resize_crop_mirror EXCEPT !.params[2] = P(xRoiEnd, "uintArr1")]
  IN {Gpu(resize_crop_mirror, type, f, "PD", "none",
          HelperStaging(o, "none", "maxDstSize"))}
resize_crop_mirror_host_helper(type, f) ==
  HostBatch(resize_crop_mirror, type, f, {"PD"}, "none")

resize_crop_mirror_u8_pln1_batchPD_gpu ==
  resize_crop_mirror_helper("u8", PLN1, "yRoiEnd")
resize_crop_mirror_u8_pln3_batchPD_gpu ==
  resize_crop_mirror_helper("u8", PLN3, "xRoiEnd")
resize_crop_mirror_u8_pkd3_batchPD_gpu ==
  resize_crop_mirror_helper("u8", PKD3, "xRoiEnd")
resize_crop_mirror_i8_pln1_batchPD_gpu ==
  resize_crop_mirror_helper("i8", PLN1, "yRoiEnd")
resize_crop_mirror_i8_pln3_batchPD_gpu ==
  resize_crop_mirror_helper("i8", PLN3, "xRoiEnd")
resize_crop_mirror_i8_pkd3_batchPD_gpu ==
  resize_crop_mirror_helper("i8", PKD3, "xRoiEnd")
resize_crop_mirror_f16_pln1_batchPD_gpu ==
  resize_crop_mirror_helper("f16", PLN1, "xRoiEnd")
resize_crop_mirror_f16_pln3_batchPD_gpu ==
  resize_crop_mirror_helper("f16", PLN3, "xRoiEnd")
resize_crop_mirror_f16_pkd3_batchPD_gpu ==
  resize_crop_mirror_helper("f16", PKD3, "xRoiEnd")
resize_crop_mirror_f32_pln1_batchPD_gpu ==
  resize_crop_mirror_helper("f32", PLN1, "xRoiEnd")
resize_crop_mirror_f32_pln3_batchPD_gpu ==
  resize_crop_mirror_helper("f32", PLN3, "xRoiEnd")
resize_crop_mirror_f32_pkd3_batchPD_gpu ==
  resize_crop_mirror_helper("f32", PKD3, "xRoiEnd")
resize_crop_mirror_u8_pln1_batchPD_host ==
  resize_crop_mirror_host_helper("u8", PLN1)
resize_crop_mirror_u8_pln3_batchPD_host ==
  resize_crop_mirror_host_helper("u8", PLN3)
resize_crop_mirror_u8_pkd3_batchPD_host ==
  resize_crop_mirror_host_helper("u8", PKD3)
resize_crop_mirror_f16_pln1_batchPD_host ==
  resize_crop_mirror_host_helper("f16", PLN1)
resize_crop_mirror_f16_pln3_batchPD_host ==
  resize_crop_mirror_host_helper("f16", PLN3)
resize_crop_mirror_f16_pkd3_batchPD_host ==
  resize_crop_mirror_host_helper("f16", PKD3)
resize_crop_mirror_f32_pln1_batchPD_host ==
  resize_crop_mirror_host_helper("f32", PLN1)
resize_crop_mirror_f32_pln3_batchPD_host ==
  resize_crop_mirror_host_helper("f32", PLN3)
resize_crop_mirror_f32_pkd3_batchPD_host ==
  resize_crop_mirror_host_helper("f32", PKD3)
resize_crop_mirror_i8_pln1_batchPD_host ==
  resize_crop_mirror_host_helper("i8", PLN1)
resize_crop_mirror_i8_pln3_batchPD_host ==
  resize_crop_mirror_host_helper("i8", PLN3)
resize_crop_mirror_i8_pkd3_batchPD_host ==
  resize_crop_mirror_host_helper("i8", PKD3)

resize_crop_mirror_functions == UNION {
  resize_crop_mirror_u8_pln1_batchPD_gpu,
  resize_crop_mirror_u8_pln3_batchPD_gpu,
  resize_crop_mirror_u8_pkd3_batchPD_gpu,
  resize_crop_mirror_i8_pln1_batchPD_gpu,
  resize_crop_mirror_i8_pln3_batchPD_gpu,
  resize_crop_mirror_i8_pkd3_batchPD_gpu,
  resize_crop_mirror_f16_pln1_batchPD_gpu,
  resize_crop_mirror_f16_pln3_batchPD_gpu,
  resize_crop_mirror_f16_pkd3_batchPD_gpu,
  resize_crop_mirror_f32_pln1_batchPD_gpu,
  resize_crop_mirror_f32_pln3_batchPD_gpu,
  resize_crop_mirror_f32_pkd3_batchPD_gpu,
  resize_crop_mirror_u8_pln1_batchPD_host,
  resize_crop_mirror_u8_pln3_batchPD_host,
  resize_crop_mirror_u8_pkd3_batchPD_host,
  resize_crop_mirror_f16_pln1_batchPD_host,
  resize_crop_mirror_f16_pln3_batchPD_host,
  resize_crop_mirror_f16_pkd3_batchPD_host,
  resize_crop_mirror_f32_pln1_batchPD_host,
  resize_crop_mirror_f32_pln3_batchPD_host,
  resize_crop_mirror_f32_pkd3_batchPD_host,
  resize_crop_mirror_i8_pln1_batchPD_host,
  resize_crop_mirror_i8_pln3_batchPD_host,
  resize_crop_mirror_i8_pkd3_batchPD_host}
-----------------------------------------------------------------------------
resize_mirror_normalize ==
  Resizing(
    Operation("resize_mirror_normalize",
              {"batch_mean", "batch_stdDev", "dstPtr", "mirrorFlag",
               "outputFormatToggle", "srcPtr"},
              <<>>,
              [OCL |-> Nothing, HIP |-> Nothing],
              [OCL |-> Nothing, HIP |-> Nothing]))
resize_mirror_normalize_host_helper(type, f) ==
  HostBatch(resize_mirror_normalize, type, f, {"PD"}, "none")

resize_mirror_normalize_u8_pln1_batchPD_host ==
  resize_mirror_normalize_host_helper("u8", PLN1)
resize_mirror_normalize_u8_pln3_batchPD_host ==
  resize_mirror_normalize_host_helper("u8", PLN3)
resize_mirror_normalize_u8_pkd3_batchPD_host ==
  resize_mirror_normalize_host_helper("u8", PKD3)

resize_mirror_normalize_functions == UNION {
  resize_mirror_normalize_u8_pln1_batchPD_host,
  resize_mirror_normalize_u8_pln3_batchPD_host,
  resize_mirror_normalize_u8_pkd3_batchPD_host}
-----------------------------------------------------------------------------
FusedFunctionsFunctions ==
  UNION {color_twist_functions, crop_mirror_normalize_functions,
  crop_functions, resize_crop_mirror_functions,
  resize_mirror_normalize_functions}
=============================================================================
