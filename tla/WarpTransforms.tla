--------------------------- MODULE WarpTransforms ---------------------------
(***************************************************************************)
(* The entry points of the other geometry transforms                       *)
(* (rppi_geometry_transforms.cpp, from rotate on):                         *)
(* for each operation its record, its helpers, one definition for each     *)
(* family of functions that the source keeps together, and their union.    *)
(***************************************************************************)
EXTENDS EntryPointShapes, OclWrappers, HipWrappers
-----------------------------------------------------------------------------
rotate ==
  Resizing(
    Operation("rotate", {"dstPtr", "srcPtr"},
              <<P("angleDeg", "floatArr0")>>,
              [OCL |-> rotate_cl, HIP |-> rotate_hip],
              [OCL |-> rotate_cl_batch, HIP |-> rotate_hip_batch]))
rotate_tensor ==
  Resizing(
    Operation("rotate", {"dstPtr", "outputFormatToggle", "srcPtr"},
              <<P("angleDeg", "floatArr0")>>,
              [OCL |-> Nothing, HIP |-> Nothing],
              [OCL |-> rotate_cl_batch_tensor,
               HIP |-> rotate_hip_batch_tensor]))
rotate_helper(type, f) ==
  GpuHelper(rotate_tensor, type, f, "whole", "maxDstSize")
rotate_host_helper(type, f) ==
  HostBatch(rotate_tensor, type, f, {"PD"}, "whole")

rotate_u8_pln1_single_gpu == GpuSingle(rotate, "u8", PLN1)
rotate_u8_pln1_batch_gpu ==
  GpuBatch(rotate, "u8", PLN1, BatchShapes \ {"PD"}, "whole")
rotate_u8_pln1_ROIS_gpu == GpuBatch(rotate, "u8", PLN1, BatchShapes, "one")
rotate_u8_pln1_ROID_gpu == GpuBatch(rotate, "u8", PLN1, BatchShapes, "each")
rotate_u8_pln3_single_gpu == GpuSingle(rotate, "u8", PLN3)
rotate_u8_pln3_batch_gpu ==
  GpuBatch(rotate, "u8", PLN3, BatchShapes \ {"PD"}, "whole")
rotate_u8_pln3_ROIS_gpu == GpuBatch(rotate, "u8", PLN3, BatchShapes, "one")
rotate_u8_pln3_ROID_gpu == GpuBatch(rotate, "u8", PLN3, BatchShapes, "each")
rotate_u8_pkd3_single_gpu == GpuSingle(rotate, "u8", PKD3)
rotate_u8_pkd3_batch_gpu ==
  GpuBatch(rotate, "u8", PKD3, BatchShapes \ {"PD"}, "whole")
rotate_f32_pkd3_batchPD_gpu == rotate_helper("f32", PKD3)
rotate_f16_pkd3_batchPD_gpu == rotate_helper("f16", PKD3)
rotate_f32_pln1_batchPD_gpu == rotate_helper("f32", PLN1)
rotate_f16_pln1_batchPD_gpu == rotate_helper("f16", PLN1)
rotate_f32_pln3_batchPD_gpu == rotate_helper("f32", PLN3)
rotate_f16_pln3_batchPD_gpu == rotate_helper("f16", PLN3)
rotate_i8_pln3_batchPD_gpu == rotate_helper("i8", PLN3)
rotate_i8_pln1_batchPD_gpu == rotate_helper("i8", PLN1)
rotate_i8_pkd3_batchPD_gpu == rotate_helper("i8", PKD3)
rotate_u8_pln3_batchPD_gpu == rotate_helper("u8", PLN3)
rotate_u8_pln1_batchPD_gpu == rotate_helper("u8", PLN1)
rotate_u8_pkd3_batchPD_gpu == rotate_helper("u8", PKD3)
rotate_u8_pkd3_ROIS_gpu == GpuBatch(rotate, "u8", PKD3, BatchShapes, "one")
rotate_u8_pkd3_ROID_gpu == GpuBatch(rotate, "u8", PKD3, BatchShapes, "each")
rotate_u8_pln1_single_host == HostSingle(rotate, "u8", PLN1)
rotate_u8_pln1_batch_host ==
  HostBatch(rotate, "u8", PLN1, BatchShapes \ {"PD"}, "whole")
rotate_u8_pln1_batchPD_host == rotate_host_helper("u8", PLN1)
rotate_u8_pln1_ROIS_host == HostBatch(rotate, "u8", PLN1, BatchShapes, "one")
rotate_u8_pln1_ROID_host == HostBatch(rotate, "u8", PLN1, BatchShapes, "each")
rotate_u8_pln3_single_host == HostSingle(rotate, "u8", PLN3)
rotate_u8_pln3_batch_host ==
  HostBatch(rotate, "u8", PLN3, BatchShapes \ {"PD"}, "whole")
rotate_u8_pln3_batchPD_host == rotate_host_helper("u8", PLN3)
rotate_u8_pln3_ROIS_host == HostBatch(rotate, "u8", PLN3, BatchShapes, "one")
rotate_u8_pln3_ROID_host == HostBatch(rotate, "u8", PLN3, BatchShapes, "each")
rotate_u8_pkd3_single_host == HostSingle(rotate, "u8", PKD3)
rotate_u8_pkd3_batch_host ==
  HostBatch(rotate, "u8", PKD3, BatchShapes \ {"PD"}, "whole")
rotate_u8_pkd3_batchPD_host == rotate_host_helper("u8", PKD3)
rotate_u8_pkd3_ROIS_host == HostBatch(rotate, "u8", PKD3, BatchShapes, "one")
rotate_u8_pkd3_ROID_host == HostBatch(rotate, "u8", PKD3, BatchShapes, "each")
rotate_f16_pln1_batchPD_host == rotate_host_helper("f16", PLN1)
rotate_f16_pln3_batchPD_host == rotate_host_helper("f16", PLN3)
rotate_f16_pkd3_batchPD_host == rotate_host_helper("f16", PKD3)
rotate_f32_pln1_batchPD_host == rotate_host_helper("f32", PLN1)
rotate_f32_pln3_batchPD_host == rotate_host_helper("f32", PLN3)
rotate_f32_pkd3_batchPD_host == rotate_host_helper("f32", PKD3)
rotate_i8_pln1_batchPD_host == rotate_host_helper("i8", PLN1)
rotate_i8_pln3_batchPD_host == rotate_host_helper("i8", PLN3)
rotate_i8_pkd3_batchPD_host == rotate_host_helper("i8", PKD3)

rotate_functions == UNION {
  rotate_u8_pln1_single_gpu, rotate_u8_pln1_batch_gpu, rotate_u8_pln1_ROIS_gpu,
  rotate_u8_pln1_ROID_gpu, rotate_u8_pln3_single_gpu, rotate_u8_pln3_batch_gpu,
  rotate_u8_pln3_ROIS_gpu, rotate_u8_pln3_ROID_gpu, rotate_u8_pkd3_single_gpu,
  rotate_u8_pkd3_batch_gpu, rotate_f32_pkd3_batchPD_gpu,
  rotate_f16_pkd3_batchPD_gpu, rotate_f32_pln1_batchPD_gpu,
  rotate_f16_pln1_batchPD_gpu, rotate_f32_pln3_batchPD_gpu,
  rotate_f16_pln3_batchPD_gpu, rotate_i8_pln3_batchPD_gpu,
  rotate_i8_pln1_batchPD_gpu, rotate_i8_pkd3_batchPD_gpu,
  rotate_u8_pln3_batchPD_gpu, rotate_u8_pln1_batchPD_gpu,
  rotate_u8_pkd3_batchPD_gpu, rotate_u8_pkd3_ROIS_gpu, rotate_u8_pkd3_ROID_gpu,
  rotate_u8_pln1_single_host, rotate_u8_pln1_batch_host,
  rotate_u8_pln1_batchPD_host, rotate_u8_pln1_ROIS_host,
  rotate_u8_pln1_ROID_host, rotate_u8_pln3_single_host,
  rotate_u8_pln3_batch_host, rotate_u8_pln3_batchPD_host,
  rotate_u8_pln3_ROIS_host, rotate_u8_pln3_ROID_host,
  rotate_u8_pkd3_single_host, rotate_u8_pkd3_batch_host,
  rotate_u8_pkd3_batchPD_host, rotate_u8_pkd3_ROIS_host,
  rotate_u8_pkd3_ROID_host, rotate_f16_pln1_batchPD_host,
  rotate_f16_pln3_batchPD_host, rotate_f16_pkd3_batchPD_host,
  rotate_f32_pln1_batchPD_host, rotate_f32_pln3_batchPD_host,
  rotate_f32_pkd3_batchPD_host, rotate_i8_pln1_batchPD_host,
  rotate_i8_pln3_batchPD_host, rotate_i8_pkd3_batchPD_host}
-----------------------------------------------------------------------------
scale ==
  Resizing(
    Operation("scale", {"dstPtr", "srcPtr"},
              <<P("percentage", "floatArr0")>>,
              [OCL |-> resize_cl, HIP |-> scale_hip],
              [OCL |-> resize_cl_batch, HIP |-> scale_hip_batch]))

scale_u8_pln1_single_gpu ==
  WithoutOnOcl({"percentage"}, GpuPlain(scale, "u8", PLN1))
  \cup GpuRoi(scale, "u8", PLN1)
scale_u8_pln1_batch_gpu ==
  GpuBatch(scale, "u8", PLN1, BatchShapes \ {"PD"}, "whole")
  \cup Calling([OCL |-> scale_cl_batch, HIP |-> scale_hip_batch],
              GpuBatch(scale, "u8", PLN1, {"PD"}, "whole"))
scale_u8_pln1_ROIS_gpu == GpuBatch(scale, "u8", PLN1, BatchShapes, "one")
scale_u8_pln1_ROID_gpu == GpuBatch(scale, "u8", PLN1, BatchShapes, "each")
scale_u8_pln3_single_gpu ==
  WithoutOnOcl({"percentage"}, GpuPlain(scale, "u8", PLN3))
  \cup GpuRoi(scale, "u8", PLN3)
scale_u8_pln3_batch_gpu ==
  GpuBatch(scale, "u8", PLN3, BatchShapes \ {"PD"}, "whole")
  \cup Calling([OCL |-> scale_cl_batch, HIP |-> scale_hip_batch],
              GpuBatch(scale, "u8", PLN3, {"PD"}, "whole"))
scale_u8_pln3_ROIS_gpu == GpuBatch(scale, "u8", PLN3, BatchShapes, "one")
scale_u8_pln3_ROID_gpu == GpuBatch(scale, "u8", PLN3, BatchShapes, "each")
scale_u8_pkd3_single_gpu ==
  WithoutOnOcl({"percentage"}, GpuPlain(scale, "u8", PKD3))
  \cup GpuRoi(scale, "u8", PKD3)
scale_u8_pkd3_batch_gpu ==
  GpuBatch(scale, "u8", PKD3, BatchShapes \ {"PD"}, "whole")
  \cup Calling([OCL |-> scale_cl_batch, HIP |-> scale_hip_batch],
              GpuBatch(scale, "u8", PKD3, {"PD"}, "whole"))
scale_u8_pkd3_ROIS_gpu == GpuBatch(scale, "u8", PKD3, BatchShapes, "one")
scale_u8_pkd3_ROID_gpu == GpuBatch(scale, "u8", PKD3, BatchShapes, "each")
scale_u8_pln1_single_host == HostSingle(scale, "u8", PLN1)
scale_u8_pln1_batch_host == HostBatch(scale, "u8", PLN1, BatchShapes, "whole")
scale_u8_pln1_ROIS_host == HostBatch(scale, "u8", PLN1, BatchShapes, "one")
scale_u8_pln1_ROID_host == HostBatch(scale, "u8", PLN1, BatchShapes, "each")
scale_u8_pln3_single_host == HostSingle(scale, "u8", PLN3)
scale_u8_pln3_batch_host == HostBatch(scale, "u8", PLN3, BatchShapes, "whole")
scale_u8_pln3_ROIS_host == HostBatch(scale, "u8", PLN3, BatchShapes, "one")
scale_u8_pln3_ROID_host == HostBatch(scale, "u8", PLN3, BatchShapes, "each")
scale_u8_pkd3_single_host == HostSingle(scale, "u8", PKD3)
scale_u8_pkd3_batch_host == HostBatch(scale, "u8", PKD3, BatchShapes, "whole")
scale_u8_pkd3_ROIS_host == HostBatch(scale, "u8", PKD3, BatchShapes, "one")
scale_u8_pkd3_ROID_host == HostBatch(scale, "u8", PKD3, BatchShapes, "each")

scale_functions == UNION {
  scale_u8_pln1_single_gpu, scale_u8_pln1_batch_gpu, scale_u8_pln1_ROIS_gpu,
  scale_u8_pln1_ROID_gpu, scale_u8_pln3_single_gpu, scale_u8_pln3_batch_gpu,
  scale_u8_pln3_ROIS_gpu, scale_u8_pln3_ROID_gpu, scale_u8_pkd3_single_gpu,
  scale_u8_pkd3_batch_gpu, scale_u8_pkd3_ROIS_gpu, scale_u8_pkd3_ROID_gpu,
  scale_u8_pln1_single_host, scale_u8_pln1_batch_host, scale_u8_pln1_ROIS_host,
  scale_u8_pln1_ROID_host, scale_u8_pln3_single_host, scale_u8_pln3_batch_host,
  scale_u8_pln3_ROIS_host, scale_u8_pln3_ROID_host, scale_u8_pkd3_single_host,
  scale_u8_pkd3_batch_host, scale_u8_pkd3_ROIS_host, scale_u8_pkd3_ROID_host}
-----------------------------------------------------------------------------
resize_crop ==
  Resizing(
    Operation("resize_crop", {"dstPtr", "srcPtr"},
              <<P("xRoiBegin", "uintArr0"), P("xRoiEnd", "uintArr1"),
                P("yRoiBegin", "uintArr2"), P("yRoiEnd", "uintArr3")>>,
              [OCL |-> resize_crop_cl, HIP |-> resize_crop_hip],
              [OCL |-> resize_crop_cl_batch, HIP |-> resize_crop_hip_batch]))
resize_crop_tensor ==
  Resizing(
    Operation("resize_crop", {"dstPtr", "outputFormatToggle", "srcPtr"},
              <<P("xRoiBegin", "uintArr0"), P("xRoiEnd", "uintArr1"),
                P("yRoiBegin", "uintArr2"), P("yRoiEnd", "uintArr3")>>,
              [OCL |-> Nothing, HIP |-> Nothing],
              [OCL |-> resize_crop_cl_batch_tensor,
               HIP |-> resize_crop_hip_batch_tensor]))
resize_crop_helper(type, f) ==
  GpuHelper(resize_crop_tensor, type, f, "none", "maxDstSize")
resize_crop_host_helper(type, f) ==
  HostBatch(resize_crop_tensor, type, f, {"PD"}, "none")

resize_crop_u8_pln1_gpu == GpuPlain(resize_crop, "u8", PLN1)
resize_crop_u8_pln1_batch_gpu ==
  GpuBatch(resize_crop, "u8", PLN1, BatchShapes \ {"PD"}, "none")
resize_crop_u8_pln3_batchPD_gpu == resize_crop_helper("u8", PLN3)
resize_crop_f16_pln3_batchPD_gpu == resize_crop_helper("f16", PLN3)
resize_crop_f32_pln3_batchPD_gpu == resize_crop_helper("f32", PLN3)
resize_crop_i8_pln3_batchPD_gpu == resize_crop_helper("i8", PLN3)
resize_crop_u8_pln3_gpu == GpuPlain(resize_crop, "u8", PLN3)
resize_crop_u8_pln3_batch_gpu ==
  GpuBatch(resize_crop, "u8", PLN3, BatchShapes \ {"PD"}, "none")
resize_crop_u8_pln1_batchPD_gpu == resize_crop_helper("u8", PLN1)
resize_crop_f16_pln1_batchPD_gpu == resize_crop_helper("f16", PLN1)
resize_crop_f32_pln1_batchPD_gpu == resize_crop_helper("f32", PLN1)
resize_crop_i8_pln1_batchPD_gpu == resize_crop_helper("i8", PLN1)
resize_crop_u8_pkd3_gpu == GpuPlain(resize_crop, "u8", PKD3)
resize_crop_u8_pkd3_batch_gpu ==
  GpuBatch(resize_crop, "u8", PKD3, BatchShapes \ {"PD"}, "none")
resize_crop_u8_pkd3_batchPD_gpu == resize_crop_helper("u8", PKD3)
resize_crop_f16_pkd3_batchPD_gpu == resize_crop_helper("f16", PKD3)
resize_crop_f32_pkd3_batchPD_gpu == resize_crop_helper("f32", PKD3)
resize_crop_i8_pkd3_batchPD_gpu == resize_crop_helper("i8", PKD3)
resize_crop_u8_pln1_host == HostPlain(resize_crop, "u8", PLN1)
resize_crop_u8_pln1_batch_host ==
  HostBatch(resize_crop, "u8", PLN1, BatchShapes \ {"PD"}, "none")
resize_crop_u8_pln1_batchPD_host == resize_crop_host_helper("u8", PLN1)
resize_crop_u8_pln3_host == HostPlain(resize_crop, "u8", PLN3)
resize_crop_u8_pln3_batch_host ==
  HostBatch(resize_crop, "u8", PLN3, BatchShapes \ {"PD"}, "none")
resize_crop_u8_pln3_batchPD_host == resize_crop_host_helper("u8", PLN3)
resize_crop_u8_pkd3_host == HostPlain(resize_crop, "u8", PKD3)
resize_crop_u8_pkd3_batch_host ==
  HostBatch(resize_crop, "u8", PKD3, BatchShapes \ {"PD"}, "none")
resize_crop_u8_pkd3_batchPD_host == resize_crop_host_helper("u8", PKD3)
resize_crop_f16_pln1_batchPD_host == resize_crop_host_helper("f16", PLN1)
resize_crop_f16_pln3_batchPD_host == resize_crop_host_helper("f16", PLN3)
resize_crop_f16_pkd3_batchPD_host == resize_crop_host_helper("f16", PKD3)
resize_crop_f32_pln1_batchPD_host == resize_crop_host_helper("f32", PLN1)
resize_crop_f32_pln3_batchPD_host == resize_crop_host_helper("f32", PLN3)
resize_crop_f32_pkd3_batchPD_host == resize_crop_host_helper("f32", PKD3)
resize_crop_i8_pln1_batchPD_host == resize_crop_host_helper("i8", PLN1)
resize_crop_i8_pln3_batchPD_host == resize_crop_host_helper("i8", PLN3)
resize_crop_i8_pkd3_batchPD_host == resize_crop_host_helper("i8", PKD3)

resize_crop_functions == UNION {
  resize_crop_u8_pln1_gpu, resize_crop_u8_pln1_batch_gpu,
  resize_crop_u8_pln3_batchPD_gpu, resize_crop_f16_pln3_batchPD_gpu,
  resize_crop_f32_pln3_batchPD_gpu, resize_crop_i8_pln3_batchPD_gpu,
  resize_crop_u8_pln3_gpu, resize_crop_u8_pln3_batch_gpu,
  resize_crop_u8_pln1_batchPD_gpu, resize_crop_f16_pln1_batchPD_gpu,
  resize_crop_f32_pln1_batchPD_gpu, resize_crop_i8_pln1_batchPD_gpu,
  resize_crop_u8_pkd3_gpu, resize_crop_u8_pkd3_batch_gpu,
  resize_crop_u8_pkd3_batchPD_gpu, resize_crop_f16_pkd3_batchPD_gpu,
  resize_crop_f32_pkd3_batchPD_gpu, resize_crop_i8_pkd3_batchPD_gpu,
  resize_crop_u8_pln1_host, resize_crop_u8_pln1_batch_host,
  resize_crop_u8_pln1_batchPD_host, resize_crop_u8_pln3_host,
  resize_crop_u8_pln3_batch_host, resize_crop_u8_pln3_batchPD_host,
  resize_crop_u8_pkd3_host, resize_crop_u8_pkd3_batch_host,
  resize_crop_u8_pkd3_batchPD_host, resize_crop_f16_pln1_batchPD_host,
  resize_crop_f16_pln3_batchPD_host, resize_crop_f16_pkd3_batchPD_host,
  resize_crop_f32_pln1_batchPD_host, resize_crop_f32_pln3_batchPD_host,
  resize_crop_f32_pkd3_batchPD_host, resize_crop_i8_pln1_batchPD_host,
  resize_crop_i8_pln3_batchPD_host, resize_crop_i8_pkd3_batchPD_host}
-----------------------------------------------------------------------------
warp_affine ==
  Resizing(
    Operation("warp_affine", {"affineMatrix", "dstPtr", "srcPtr"},
              <<>>,
              [OCL |-> warp_affine_cl, HIP |-> warp_affine_hip],
              [OCL |-> warp_affine_cl_batch, HIP |-> warp_affine_hip_batch]))
warp_affine_tensor ==
  Resizing(
    Operation("warp_affine",
              {"affineMatrix", "dstPtr", "outputFormatToggle", "srcPtr"},
              <<>>,
              [OCL |-> Nothing, HIP |-> Nothing],
              [OCL |-> warp_affine_cl_batch_tensor,
               HIP |-> warp_affine_hip_batch_tensor]))
warp_affine_helper(type, f) ==
  GpuHelper(warp_affine_tensor, type, f, "whole", "maxDstSize")
warp_affine_host_helper(type, f) ==
  HostBatch(warp_affine_tensor, type, f, {"PD"}, "whole")

warp_affine_u8_pln1_single_gpu == GpuSingle(warp_affine, "u8", PLN1)
warp_affine_u8_pln1_batch_gpu ==
  GpuBatch(warp_affine, "u8", PLN1, BatchShapes \ {"PD"}, "whole")
warp_affine_u8_pln1_ROIS_gpu ==
  GpuBatch(warp_affine, "u8", PLN1, BatchShapes, "one")
warp_affine_u8_pln1_ROID_gpu ==
  GpuBatch(warp_affine, "u8", PLN1, BatchShapes, "each")
warp_affine_u8_pln3_single_gpu == GpuSingle(warp_affine, "u8", PLN3)
warp_affine_u8_pln3_batch_gpu ==
  GpuBatch(warp_affine, "u8", PLN3, BatchShapes \ {"PD"}, "whole")
warp_affine_u8_pln3_ROIS_gpu ==
  GpuBatch(warp_affine, "u8", PLN3, BatchShapes, "one")
warp_affine_u8_pln3_ROID_gpu ==
  GpuBatch(warp_affine, "u8", PLN3, BatchShapes, "each")
warp_affine_u8_pkd3_single_gpu == GpuSingle(warp_affine, "u8", PKD3)
warp_affine_u8_pkd3_batch_gpu ==
  GpuBatch(warp_affine, "u8", PKD3, BatchShapes \ {"PD"}, "whole")
warp_affine_u8_pkd3_batchPD_gpu == warp_affine_helper("u8", PKD3)
warp_affine_f32_pkd3_batchPD_gpu == warp_affine_helper("f32", PKD3)
warp_affine_f16_pkd3_batchPD_gpu == warp_affine_helper("f16", PKD3)
warp_affine_i8_pkd3_batchPD_gpu == warp_affine_helper("i8", PKD3)
warp_affine_u8_pln3_batchPD_gpu == warp_affine_helper("u8", PLN3)
warp_affine_f32_pln3_batchPD_gpu == warp_affine_helper("f32", PLN3)
warp_affine_f16_pln3_batchPD_gpu == warp_affine_helper("f16", PLN3)
warp_affine_i8_pln3_batchPD_gpu == warp_affine_helper("i8", PLN3)
warp_affine_u8_pln1_batchPD_gpu == warp_affine_helper("u8", PLN1)
warp_affine_f32_pln1_batchPD_gpu == warp_affine_helper("f32", PLN1)
warp_affine_f16_pln1_batchPD_gpu == warp_affine_helper("f16", PLN1)
warp_affine_i8_pln1_batchPD_gpu == warp_affine_helper("i8", PLN1)
warp_affine_u8_pkd3_ROIS_gpu ==
  GpuBatch(warp_affine, "u8", PKD3, BatchShapes, "one")
warp_affine_u8_pkd3_ROID_gpu ==
  GpuBatch(warp_affine, "u8", PKD3, BatchShapes, "each")
warp_affine_u8_pln1_single_host ==
  HostPlain(warp_affine, "u8", PLN1)
  \cup HostRoiOfEach(warp_affine, "u8", PLN1)
warp_affine_u8_pln1_batch_host ==
  HostBatch(warp_affine, "u8", PLN1, BatchShapes \ {"PD"}, "whole")
warp_affine_u8_pln1_batchPD_host == warp_affine_host_helper("u8", PLN1)
warp_affine_u8_pln1_ROIS_host ==
  HostBatch(warp_affine, "u8", PLN1, BatchShapes, "one")
warp_affine_u8_pln1_ROID_host ==
  HostBatch(warp_affine, "u8", PLN1, BatchShapes, "each")
warp_affine_u8_pln3_single_host == HostSingle(warp_affine, "u8", PLN3)
warp_affine_u8_pln3_batch_host ==
  HostBatch(warp_affine, "u8", PLN3, BatchShapes \ {"PD"}, "whole")
warp_affine_u8_pln3_batchPD_host == warp_affine_host_helper("u8", PLN3)
warp_affine_u8_pln3_ROIS_host ==
  HostBatch(warp_affine, "u8", PLN3, BatchShapes, "one")
warp_affine_u8_pln3_ROID_host ==
  HostBatch(warp_affine, "u8", PLN3, BatchShapes, "each")
warp_affine_u8_pkd3_single_host == HostSingle(warp_affine, "u8", PKD3)
warp_affine_u8_pkd3_batch_host ==
  HostBatch(warp_affine, "u8", PKD3, BatchShapes \ {"PD"}, "whole")
warp_affine_u8_pkd3_batchPD_host == warp_affine_host_helper("u8", PKD3)
warp_affine_u8_pkd3_ROIS_host ==
  HostBatch(warp_affine, "u8", PKD3, BatchShapes, "one")
warp_affine_u8_pkd3_ROID_host ==
  HostBatch(warp_affine, "u8", PKD3, BatchShapes, "each")
warp_affine_f16_pln1_batchPD_host == warp_affine_host_helper("f16", PLN1)
warp_affine_f16_pln3_batchPD_host == warp_affine_host_helper("f16", PLN3)
warp_affine_f16_pkd3_batchPD_host == warp_affine_host_helper("f16", PKD3)
warp_affine_f32_pln1_batchPD_host == warp_affine_host_helper("f32", PLN1)
warp_affine_f32_pln3_batchPD_host == warp_affine_host_helper("f32", PLN3)
warp_affine_f32_pkd3_batchPD_host == warp_affine_host_helper("f32", PKD3)
warp_affine_i8_pln1_batchPD_host == warp_affine_host_helper("i8", PLN1)
warp_affine_i8_pln3_batchPD_host == warp_affine_host_helper("i8", PLN3)
warp_affine_i8_pkd3_batchPD_host == warp_affine_host_helper("i8", PKD3)

warp_affine_functions == UNION {
  warp_affine_u8_pln1_single_gpu, warp_affine_u8_pln1_batch_gpu,
  warp_affine_u8_pln1_ROIS_gpu, warp_affine_u8_pln1_ROID_gpu,
  warp_affine_u8_pln3_single_gpu, warp_affine_u8_pln3_batch_gpu,
  warp_affine_u8_pln3_ROIS_gpu, warp_affine_u8_pln3_ROID_gpu,
  warp_affine_u8_pkd3_single_gpu, warp_affine_u8_pkd3_batch_gpu,
  warp_affine_u8_pkd3_batchPD_gpu, warp_affine_f32_pkd3_batchPD_gpu,
  warp_affine_f16_pkd3_batchPD_gpu, warp_affine_i8_pkd3_batchPD_gpu,
  warp_affine_u8_pln3_batchPD_gpu, warp_affine_f32_pln3_batchPD_gpu,
  warp_affine_f16_pln3_batchPD_gpu, warp_affine_i8_pln3_batchPD_gpu,
  warp_affine_u8_pln1_batchPD_gpu, warp_affine_f32_pln1_batchPD_gpu,
  warp_affine_f16_pln1_batchPD_gpu, warp_affine_i8_pln1_batchPD_gpu,
  warp_affine_u8_pkd3_ROIS_gpu, warp_affine_u8_pkd3_ROID_gpu,
  warp_affine_u8_pln1_single_host, warp_affine_u8_pln1_batch_host,
  warp_affine_u8_pln1_batchPD_host, warp_affine_u8_pln1_ROIS_host,
  warp_affine_u8_pln1_ROID_host, warp_affine_u8_pln3_single_host,
  warp_affine_u8_pln3_batch_host, warp_affine_u8_pln3_batchPD_host,
  warp_affine_u8_pln3_ROIS_host, warp_affine_u8_pln3_ROID_host,
  warp_affine_u8_pkd3_single_host, warp_affine_u8_pkd3_batch_host,
  warp_affine_u8_pkd3_batchPD_host, warp_affine_u8_pkd3_ROIS_host,
  warp_affine_u8_pkd3_ROID_host, warp_affine_f16_pln1_batchPD_host,
  warp_affine_f16_pln3_batchPD_host, warp_affine_f16_pkd3_batchPD_host,
  warp_affine_f32_pln1_batchPD_host, warp_affine_f32_pln3_batchPD_host,
  warp_affine_f32_pkd3_batchPD_host, warp_affine_i8_pln1_batchPD_host,
  warp_affine_i8_pln3_batchPD_host, warp_affine_i8_pkd3_batchPD_host}
-----------------------------------------------------------------------------
warp_perspective ==
  Resizing(
    Operation("warp_perspective", {"dstPtr", "perspectiveMatrix", "srcPtr"},
              <<>>,
              [OCL |-> warp_perspective_cl, HIP |-> warp_perspective_hip],
              [OCL |-> warp_perspective_cl_batch,
               HIP |-> warp_perspective_hip_batch]))

warp_perspective_u8_pln1_single_gpu == GpuSingle(warp_perspective, "u8", PLN1)
warp_perspective_u8_pln1_batch_gpu ==
  GpuBatch(warp_perspective, "u8", PLN1, BatchShapes, "whole")
warp_perspective_u8_pln1_ROIS_gpu ==
  GpuBatch(warp_perspective, "u8", PLN1, BatchShapes, "one")
warp_perspective_u8_pln1_ROID_gpu ==
  GpuBatch(warp_perspective, "u8", PLN1, BatchShapes, "each")
warp_perspective_u8_pln3_single_gpu == GpuSingle(warp_perspective, "u8", PLN3)
warp_perspective_u8_pln3_batch_gpu ==
  GpuBatch(warp_perspective, "u8", PLN3, BatchShapes, "whole")
warp_perspective_u8_pln3_ROIS_gpu ==
  GpuBatch(warp_perspective, "u8", PLN3, BatchShapes, "one")
warp_perspective_u8_pln3_ROID_gpu ==
  GpuBatch(warp_perspective, "u8", PLN3, BatchShapes, "each")
warp_perspective_u8_pkd3_single_gpu == GpuSingle(warp_perspective, "u8", PKD3)
warp_perspective_u8_pkd3_batch_gpu ==
  GpuBatch(warp_perspective, "u8", PKD3, BatchShapes, "whole")
warp_perspective_u8_pkd3_ROIS_gpu ==
  GpuBatch(warp_perspective, "u8", PKD3, BatchShapes, "one")
warp_perspective_u8_pkd3_ROID_gpu ==
  GpuBatch(warp_perspective, "u8", PKD3, BatchShapes, "each")
warp_perspective_u8_pln1_single_host ==
  HostPlain(warp_perspective, "u8", PLN1)
  \cup HostRoiOfEach(warp_perspective, "u8", PLN1)
warp_perspective_u8_pln1_batch_host ==
  HostBatch(warp_perspective, "u8", PLN1, BatchShapes, "whole")
warp_perspective_u8_pln1_ROIS_host ==
  HostBatch(warp_perspective, "u8", PLN1, BatchShapes, "one")
warp_perspective_u8_pln1_ROID_host ==
  HostBatch(warp_perspective, "u8", PLN1, BatchShapes, "each")
warp_perspective_u8_pln3_single_host ==
  HostSingle(warp_perspective, "u8", PLN3)
warp_perspective_u8_pln3_batch_host ==
  HostBatch(warp_perspective, "u8", PLN3, BatchShapes, "whole")
warp_perspective_u8_pln3_ROIS_host ==
  HostBatch(warp_perspective, "u8", PLN3, BatchShapes, "one")
warp_perspective_u8_pln3_ROID_host ==
  HostBatch(warp_perspective, "u8", PLN3, BatchShapes, "each")
warp_perspective_u8_pkd3_single_host ==
  HostSingle(warp_perspective, "u8", PKD3)
warp_perspective_u8_pkd3_batch_host ==
  HostBatch(warp_perspective, "u8", PKD3, BatchShapes, "whole")
warp_perspective_u8_pkd3_ROIS_host ==
  HostBatch(warp_perspective, "u8", PKD3, BatchShapes, "one")
warp_perspective_u8_pkd3_ROID_host ==
  HostBatch(warp_perspective, "u8", PKD3, BatchShapes, "each")

warp_perspective_functions == UNION {
  warp_perspective_u8_pln1_single_gpu, warp_perspective_u8_pln1_batch_gpu,
  warp_perspective_u8_pln1_ROIS_gpu, warp_perspective_u8_pln1_ROID_gpu,
  warp_perspective_u8_pln3_single_gpu, warp_perspective_u8_pln3_batch_gpu,
  warp_perspective_u8_pln3_ROIS_gpu, warp_perspective_u8_pln3_ROID_gpu,
  warp_perspective_u8_pkd3_single_gpu, warp_perspective_u8_pkd3_batch_gpu,
  warp_perspective_u8_pkd3_ROIS_gpu, warp_perspective_u8_pkd3_ROID_gpu,
  warp_perspective_u8_pln1_single_host, warp_perspective_u8_pln1_batch_host,
  warp_perspective_u8_pln1_ROIS_host, warp_perspective_u8_pln1_ROID_host,
  warp_perspective_u8_pln3_single_host, warp_perspective_u8_pln3_batch_host,
  warp_perspective_u8_pln3_ROIS_host, warp_perspective_u8_pln3_ROID_host,
  warp_perspective_u8_pkd3_single_host, warp_perspective_u8_pkd3_batch_host,
  warp_perspective_u8_pkd3_ROIS_host, warp_perspective_u8_pkd3_ROID_host}
-----------------------------------------------------------------------------
WarpTransformsFunctions ==
  UNION {rotate_functions, scale_functions, resize_crop_functions,
    warp_affine_functions, warp_perspective_functions}
=============================================================================
