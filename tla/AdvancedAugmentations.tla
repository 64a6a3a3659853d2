----------------------- MODULE AdvancedAugmentations ------------------------
(***************************************************************************)
(* The entry points of the advanced augmentations                          *)
(* (rppi_advanced_augmentations.cpp):                                      *)
(* for each operation its record, its helpers, one definition for each     *)
(* family of functions that the source keeps together, and their union.    *)
(***************************************************************************)
EXTENDS EntryPointShapes, OclWrappers, HipWrappers
-----------------------------------------------------------------------------
non_linear_blend ==
  Operation("non_linear_blend",
            {"dstPtr", "outputFormatToggle", "srcPtr1", "srcPtr2"},
            <<P("std_dev", "floatArr0")>>,
            [OCL |-> Nothing, HIP |-> Nothing],
            [OCL |-> non_linear_blend_cl_batch,
             HIP |-> non_linear_blend_hip_batch_tensor])
non_linear_blend_helper(type, f) ==
  GpuHelper(non_linear_blend, type, f, "whole", "maxSrcSize")
non_linear_blend_host_helper(type, f) ==
  HostBatch(non_linear_blend, type, f, {"PD"}, "none")

non_linear_blend_u8_pkd3_batchPD_gpu == non_linear_blend_helper("u8", PKD3)
non_linear_blend_f32_pkd3_batchPD_gpu == non_linear_blend_helper("f32", PKD3)
non_linear_blend_f16_pkd3_batchPD_gpu == non_linear_blend_helper("f16", PKD3)
non_linear_blend_i8_pkd3_batchPD_gpu == non_linear_blend_helper("i8", PKD3)
non_linear_blend_u8_pln3_batchPD_gpu == non_linear_blend_helper("u8", PLN3)
non_linear_blend_f32_pln3_batchPD_gpu == non_linear_blend_helper("f32", PLN3)
non_linear_blend_f16_pln3_batchPD_gpu == non_linear_blend_helper("f16", PLN3)
non_linear_blend_i8_pln3_batchPD_gpu == non_linear_blend_helper("i8", PLN3)
non_linear_blend_u8_pln1_batchPD_gpu == non_linear_blend_helper("u8", PLN1)
non_linear_blend_f32_pln1_batchPD_gpu == non_linear_blend_helper("f32", PLN1)
non_linear_blend_f16_pln1_batchPD_gpu == non_linear_blend_helper("f16", PLN1)
non_linear_blend_i8_pln1_batchPD_gpu == non_linear_blend_helper("i8", PLN1)
non_linear_blend_u8_pkd3_batchPD_host ==
  non_linear_blend_host_helper("u8", PKD3)
non_linear_blend_f32_pkd3_batchPD_host ==
  non_linear_blend_host_helper("f32", PKD3)
non_linear_blend_f16_pkd3_batchPD_host ==
  non_linear_blend_host_helper("f16", PKD3)
non_linear_blend_i8_pkd3_batchPD_host ==
  non_linear_blend_host_helper("i8", PKD3)
non_linear_blend_u8_pln3_batchPD_host ==
  non_linear_blend_host_helper("u8", PLN3)
non_linear_blend_f32_pln3_batchPD_host ==
  non_linear_blend_host_helper("f32", PLN3)
non_linear_blend_f16_pln3_batchPD_host ==
  non_linear_blend_host_helper("f16", PLN3)
non_linear_blend_i8_pln3_batchPD_host ==
  non_linear_blend_host_helper("i8", PLN3)
non_linear_blend_u8_pln1_batchPD_host ==
  non_linear_blend_host_helper("u8", PLN1)
non_linear_blend_f32_pln1_batchPD_host ==
  non_linear_blend_host_helper("f32", PLN1)
non_linear_blend_f16_pln1_batchPD_host ==
  non_linear_blend_host_helper("f16", PLN1)
non_linear_blend_i8_pln1_batchPD_host ==
  non_linear_blend_host_helper("i8", PLN1)

non_linear_blend_functions == UNION {
  non_linear_blend_u8_pkd3_batchPD_gpu, non_linear_blend_f32_pkd3_batchPD_gpu,
  non_linear_blend_f16_pkd3_batchPD_gpu, non_linear_blend_i8_pkd3_batchPD_gpu,
  non_linear_blend_u8_pln3_batchPD_gpu, non_linear_blend_f32_pln3_batchPD_gpu,
  non_linear_blend_f16_pln3_batchPD_gpu, non_linear_blend_i8_pln3_batchPD_gpu,
  non_linear_blend_u8_pln1_batchPD_gpu, non_linear_blend_f32_pln1_batchPD_gpu,
  non_linear_blend_f16_pln1_batchPD_gpu, non_linear_blend_i8_pln1_batchPD_gpu,
  non_linear_blend_u8_pkd3_batchPD_host,
  non_linear_blend_f32_pkd3_batchPD_host,
  non_linear_blend_f16_pkd3_batchPD_host,
  non_linear_blend_i8_pkd3_batchPD_host, non_linear_blend_u8_pln3_batchPD_host,
  non_linear_blend_f32_pln3_batchPD_host,
  non_linear_blend_f16_pln3_batchPD_host,
  non_linear_blend_i8_pln3_batchPD_host, non_linear_blend_u8_pln1_batchPD_host,
  non_linear_blend_f32_pln1_batchPD_host,
  non_linear_blend_f16_pln1_batchPD_host,
  non_linear_blend_i8_pln1_batchPD_host}
-----------------------------------------------------------------------------
water ==
  Operation("water", {"dstPtr", "outputFormatToggle", "srcPtr"},
            <<P("ampl_x", "floatArr0"), P("ampl_y", "floatArr1"), P("freq_x",
              "floatArr2"), P("freq_y", "floatArr3"), P("phase_x",
              "floatArr4"), P("phase_y", "floatArr5")>>,
            [OCL |-> Nothing, HIP |-> Nothing],
            [OCL |-> water_cl_batch, HIP |-> water_hip_batch_tensor])
water_helper(type, f) ==
  GpuHelper(water, type, f, "whole", "maxSrcSize")
water_host_helper(type, f) ==
  HostBatch(water, type, f, {"PD"}, "none")

water_u8_pkd3_batchPD_gpu == water_helper("u8", PKD3)
water_f32_pkd3_batchPD_gpu == water_helper("f32", PKD3)
water_f16_pkd3_batchPD_gpu == water_helper("f16", PKD3)
water_i8_pkd3_batchPD_gpu == water_helper("i8", PKD3)
water_u8_pln3_batchPD_gpu == water_helper("u8", PLN3)
water_f32_pln3_batchPD_gpu == water_helper("f32", PLN3)
water_f16_pln3_batchPD_gpu == water_helper("f16", PLN3)
water_i8_pln3_batchPD_gpu == water_helper("i8", PLN3)
water_u8_pln1_batchPD_gpu == water_helper("u8", PLN1)
water_f32_pln1_batchPD_gpu == water_helper("f32", PLN1)
water_f16_pln1_batchPD_gpu == water_helper("f16", PLN1)
water_i8_pln1_batchPD_gpu == water_helper("i8", PLN1)
water_u8_pkd3_batchPD_host == water_host_helper("u8", PKD3)
water_f32_pkd3_batchPD_host == water_host_helper("f32", PKD3)
water_f16_pkd3_batchPD_host == water_host_helper("f16", PKD3)
water_i8_pkd3_batchPD_host == water_host_helper("i8", PKD3)
water_u8_pln3_batchPD_host == water_host_helper("u8", PLN3)
water_f32_pln3_batchPD_host == water_host_helper("f32", PLN3)
water_f16_pln3_batchPD_host == water_host_helper("f16", PLN3)
water_i8_pln3_batchPD_host == water_host_helper("i8", PLN3)
water_u8_pln1_batchPD_host == water_host_helper("u8", PLN1)
water_f32_pln1_batchPD_host == water_host_helper("f32", PLN1)
water_f16_pln1_batchPD_host == water_host_helper("f16", PLN1)
water_i8_pln1_batchPD_host == water_host_helper("i8", PLN1)

water_functions == UNION {
  water_u8_pkd3_batchPD_gpu, water_f32_pkd3_batchPD_gpu,
  water_f16_pkd3_batchPD_gpu, water_i8_pkd3_batchPD_gpu,
  water_u8_pln3_batchPD_gpu, water_f32_pln3_batchPD_gpu,
  water_f16_pln3_batchPD_gpu, water_i8_pln3_batchPD_gpu,
  water_u8_pln1_batchPD_gpu, water_f32_pln1_batchPD_gpu,
  water_f16_pln1_batchPD_gpu, water_i8_pln1_batchPD_gpu,
  water_u8_pkd3_batchPD_host, water_f32_pkd3_batchPD_host,
  water_f16_pkd3_batchPD_host, water_i8_pkd3_batchPD_host,
  water_u8_pln3_batchPD_host, water_f32_pln3_batchPD_host,
  water_f16_pln3_batchPD_host, water_i8_pln3_batchPD_host,
  water_u8_pln1_batchPD_host, water_f32_pln1_batchPD_host,
  water_f16_pln1_batchPD_host, water_i8_pln1_batchPD_host}
-----------------------------------------------------------------------------
erase ==
  Operation("erase",
            {"anchor_box_info", "box_offset", "colors", "dstPtr",
             "outputFormatToggle", "srcPtr"},
            <<P("num_of_boxes", "uintArr0")>>,
            [OCL |-> Nothing, HIP |-> Nothing],
            [OCL |-> erase_cl_batch, HIP |-> erase_hip_batch_tensor])
erase_helper(type, f) ==
  GpuHelper(erase, type, f, "none", "maxSrcSize")
erase_host_helper(type, f) ==
  HostBatch(erase, type, f, {"PD"}, "none")

erase_u8_pkd3_batchPD_gpu == erase_helper("u8", PKD3)
erase_u8_pln3_batchPD_gpu == erase_helper("u8", PLN3)
erase_u8_pln1_batchPD_gpu == erase_helper("u8", PLN1)
erase_f32_pkd3_batchPD_gpu == erase_helper("f32", PKD3)
erase_f32_pln3_batchPD_gpu == erase_helper("f32", PLN3)
erase_f32_pln1_batchPD_gpu == erase_helper("f32", PLN1)
erase_f16_pkd3_batchPD_gpu == erase_helper("f16", PKD3)
erase_f16_pln3_batchPD_gpu == erase_helper("f16", PLN3)
erase_f16_pln1_batchPD_gpu == erase_helper("f16", PLN1)
erase_i8_pkd3_batchPD_gpu == erase_helper("i8", PKD3)
erase_i8_pln3_batchPD_gpu == erase_helper("i8", PLN3)
erase_i8_pln1_batchPD_gpu == erase_helper("i8", PLN1)
erase_u8_pkd3_batchPD_host == erase_host_helper("u8", PKD3)
erase_u8_pln3_batchPD_host == erase_host_helper("u8", PLN3)
erase_u8_pln1_batchPD_host == erase_host_helper("u8", PLN1)
erase_f32_pkd3_batchPD_host == erase_host_helper("f32", PKD3)
erase_f32_pln3_batchPD_host == erase_host_helper("f32", PLN3)
erase_f32_pln1_batchPD_host == erase_host_helper("f32", PLN1)
erase_f16_pkd3_batchPD_host == erase_host_helper("f16", PKD3)
erase_f16_pln3_batchPD_host == erase_host_helper("f16", PLN3)
erase_f16_pln1_batchPD_host == erase_host_helper("f16", PLN1)
erase_i8_pkd3_batchPD_host == erase_host_helper("i8", PKD3)
erase_i8_pln3_batchPD_host == erase_host_helper("i8", PLN3)
erase_i8_pln1_batchPD_host == erase_host_helper("i8", PLN1)

erase_functions == UNION {
  erase_u8_pkd3_batchPD_gpu, erase_u8_pln3_batchPD_gpu,
  erase_u8_pln1_batchPD_gpu, erase_f32_pkd3_batchPD_gpu,
  erase_f32_pln3_batchPD_gpu, erase_f32_pln1_batchPD_gpu,
  erase_f16_pkd3_batchPD_gpu, erase_f16_pln3_batchPD_gpu,
  erase_f16_pln1_batchPD_gpu, erase_i8_pkd3_batchPD_gpu,
  erase_i8_pln3_batchPD_gpu, erase_i8_pln1_batchPD_gpu,
  erase_u8_pkd3_batchPD_host, erase_u8_pln3_batchPD_host,
  erase_u8_pln1_batchPD_host, erase_f32_pkd3_batchPD_host,
  erase_f32_pln3_batchPD_host, erase_f32_pln1_batchPD_host,
  erase_f16_pkd3_batchPD_host, erase_f16_pln3_batchPD_host,
  erase_f16_pln1_batchPD_host, erase_i8_pkd3_batchPD_host,
  erase_i8_pln3_batchPD_host, erase_i8_pln1_batchPD_host}
-----------------------------------------------------------------------------
color_cast ==
  Operation("color_cast", {"dstPtr", "outputFormatToggle", "srcPtr"},
            <<P("r", "ucharArr0"), P("g", "ucharArr1"), P("b", "ucharArr2"),
              P("alpha", "floatArr3")>>,
            [OCL |-> Nothing, HIP |-> Nothing],
            [OCL |-> color_cast_cl_batch, HIP |-> color_cast_hip_batch_tensor])
color_cast_helper(type, f) ==
  GpuHelper(color_cast, type, f, "whole", "maxSrcSize")
color_cast_host_helper(type, f) ==
  HostBatch(color_cast, type, f, {"PD"}, "none")

color_cast_u8_pkd3_batchPD_gpu == color_cast_helper("u8", PKD3)
color_cast_f32_pkd3_batchPD_gpu == color_cast_helper("f32", PKD3)
color_cast_f16_pkd3_batchPD_gpu == color_cast_helper("f16", PKD3)
color_cast_i8_pkd3_batchPD_gpu == color_cast_helper("i8", PKD3)
color_cast_u8_pln3_batchPD_gpu == color_cast_helper("u8", PLN3)
color_cast_f32_pln3_batchPD_gpu == color_cast_helper("f32", PLN3)
color_cast_f16_pln3_batchPD_gpu == color_cast_helper("f16", PLN3)
color_cast_i8_pln3_batchPD_gpu == color_cast_helper("i8", PLN3)
color_cast_u8_pkd3_batchPD_host == color_cast_host_helper("u8", PKD3)
color_cast_f32_pkd3_batchPD_host == color_cast_host_helper("f32", PKD3)
color_cast_f16_pkd3_batchPD_host == color_cast_host_helper("f16", PKD3)
color_cast_i8_pkd3_batchPD_host == color_cast_host_helper("i8", PKD3)
color_cast_u8_pln3_batchPD_host == color_cast_host_helper("u8", PLN3)
color_cast_f32_pln3_batchPD_host == color_cast_host_helper("f32", PLN3)
color_cast_f16_pln3_batchPD_host == color_cast_host_helper("f16", PLN3)
color_cast_i8_pln3_batchPD_host == color_cast_host_helper("i8", PLN3)

color_cast_functions == UNION {
  color_cast_u8_pkd3_batchPD_gpu, color_cast_f32_pkd3_batchPD_gpu,
  color_cast_f16_pkd3_batchPD_gpu, color_cast_i8_pkd3_batchPD_gpu,
  color_cast_u8_pln3_batchPD_gpu, color_cast_f32_pln3_batchPD_gpu,
  color_cast_f16_pln3_batchPD_gpu, color_cast_i8_pln3_batchPD_gpu,
  color_cast_u8_pkd3_batchPD_host, color_cast_f32_pkd3_batchPD_host,
  color_cast_f16_pkd3_batchPD_host, color_cast_i8_pkd3_batchPD_host,
  color_cast_u8_pln3_batchPD_host, color_cast_f32_pln3_batchPD_host,
  color_cast_f16_pln3_batchPD_host, color_cast_i8_pln3_batchPD_host}
-----------------------------------------------------------------------------
lut ==
  Operation("lut", {"dstPtr", "lut", "outputFormatToggle", "srcPtr"},
            <<>>,
            [OCL |-> Nothing, HIP |-> Nothing],
            [OCL |-> lut_cl_batch, HIP |-> lut_hip_batch_tensor])
lut_helper(type, f) ==
  GpuHelper(lut, type, f, "none", "maxSrcSize")
lut_host_helper(type, f) ==
  HostBatch(lut, type, f, {"PD"}, "none")

lut_u8_pkd3_batchPD_gpu == lut_helper("u8", PKD3)
lut_i8_pkd3_batchPD_gpu == lut_helper("i8", PKD3)
lut_u8_pln3_batchPD_gpu == lut_helper("u8", PLN3)
lut_i8_pln3_batchPD_gpu == lut_helper("i8", PLN3)
lut_u8_pln1_batchPD_gpu == lut_helper("u8", PLN1)
lut_i8_pln1_batchPD_gpu == lut_helper("i8", PLN1)
lut_u8_pkd3_batchPD_host == lut_host_helper("u8", PKD3)
lut_i8_pkd3_batchPD_host == lut_host_helper("i8", PKD3)
lut_u8_pln3_batchPD_host == lut_host_helper("u8", PLN3)
lut_i8_pln3_batchPD_host == lut_host_helper("i8", PLN3)
lut_u8_pln1_batchPD_host == lut_host_helper("u8", PLN1)
lut_i8_pln1_batchPD_host == lut_host_helper("i8", PLN1)

lut_functions == UNION {
  lut_u8_pkd3_batchPD_gpu, lut_i8_pkd3_batchPD_gpu, lut_u8_pln3_batchPD_gpu,
  lut_i8_pln3_batchPD_gpu, lut_u8_pln1_batchPD_gpu, lut_i8_pln1_batchPD_gpu,
  lut_u8_pkd3_batchPD_host, lut_i8_pkd3_batchPD_host, lut_u8_pln3_batchPD_host,
  lut_i8_pln3_batchPD_host, lut_u8_pln1_batchPD_host, lut_i8_pln1_batchPD_host}
-----------------------------------------------------------------------------
crop_and_patch ==
  Operation("crop_and_patch",
            {"dstPtr", "outputFormatToggle", "srcPtr1", "srcPtr2"},
            <<P("x11", "uintArr0"), P("y11", "uintArr1"), P("x12", "uintArr2"),
              P("y12", "uintArr3"), P("x21", "uintArr4"), P("y21", "uintArr5"),
              P("x22", "uintArr6"), P("y22", "uintArr7")>>,
            [OCL |-> Nothing, HIP |-> Nothing],
            [OCL |-> crop_and_patch_cl_batch,
             HIP |-> crop_and_patch_hip_batch_tensor])
crop_and_patch_helper(type, f) ==
  GpuHelper(crop_and_patch, type, f, "whole", "maxSrcSize")
crop_and_patch_host_helper(type, f) ==
  HostBatch(crop_and_patch, type, f, {"PD"}, "none")

crop_and_patch_u8_pkd3_batchPD_gpu == crop_and_patch_helper("u8", PKD3)
crop_and_patch_f32_pkd3_batchPD_gpu == crop_and_patch_helper("f32", PKD3)
crop_and_patch_f16_pkd3_batchPD_gpu == crop_and_patch_helper("f16", PKD3)
crop_and_patch_i8_pkd3_batchPD_gpu == crop_and_patch_helper("i8", PKD3)
crop_and_patch_u8_pln3_batchPD_gpu == crop_and_patch_helper("u8", PLN3)
crop_and_patch_f32_pln3_batchPD_gpu == crop_and_patch_helper("f32", PLN3)
crop_and_patch_f16_pln3_batchPD_gpu == crop_and_patch_helper("f16", PLN3)
crop_and_patch_i8_pln3_batchPD_gpu == crop_and_patch_helper("i8", PLN3)
crop_and_patch_u8_pln1_batchPD_gpu == crop_and_patch_helper("u8", PLN1)
crop_and_patch_f32_pln1_batchPD_gpu == crop_and_patch_helper("f32", PLN1)
crop_and_patch_f16_pln1_batchPD_gpu == crop_and_patch_helper("f16", PLN1)
crop_and_patch_i8_pln1_batchPD_gpu == crop_and_patch_helper("i8", PLN1)
crop_and_patch_u8_pkd3_batchPD_host == crop_and_patch_host_helper("u8", PKD3)
crop_and_patch_f32_pkd3_batchPD_host == crop_and_patch_host_helper("f32", PKD3)
crop_and_patch_f16_pkd3_batchPD_host == crop_and_patch_host_helper("f16", PKD3)
crop_and_patch_i8_pkd3_batchPD_host == crop_and_patch_host_helper("i8", PKD3)
crop_and_patch_u8_pln3_batchPD_host == crop_and_patch_host_helper("u8", PLN3)
crop_and_patch_f32_pln3_batchPD_host == crop_and_patch_host_helper("f32", PLN3)
crop_and_patch_f16_pln3_batchPD_host == crop_and_patch_host_helper("f16", PLN3)
crop_and_patch_i8_pln3_batchPD_host == crop_and_patch_host_helper("i8", PLN3)
crop_and_patch_u8_pln1_batchPD_host == crop_and_patch_host_helper("u8", PLN1)
crop_and_patch_f32_pln1_batchPD_host == crop_and_patch_host_helper("f32", PLN1)
crop_and_patch_f16_pln1_batchPD_host == crop_and_patch_host_helper("f16", PLN1)
crop_and_patch_i8_pln1_batchPD_host == crop_and_patch_host_helper("i8", PLN1)

crop_and_patch_functions == UNION {
  crop_and_patch_u8_pkd3_batchPD_gpu, crop_and_patch_f32_pkd3_batchPD_gpu,
  crop_and_patch_f16_pkd3_batchPD_gpu, crop_and_patch_i8_pkd3_batchPD_gpu,
  crop_and_patch_u8_pln3_batchPD_gpu, crop_and_patch_f32_pln3_batchPD_gpu,
  crop_and_patch_f16_pln3_batchPD_gpu, crop_and_patch_i8_pln3_batchPD_gpu,
  crop_and_patch_u8_pln1_batchPD_gpu, crop_and_patch_f32_pln1_batchPD_gpu,
  crop_and_patch_f16_pln1_batchPD_gpu, crop_and_patch_i8_pln1_batchPD_gpu,
  crop_and_patch_u8_pkd3_batchPD_host, crop_and_patch_f32_pkd3_batchPD_host,
  crop_and_patch_f16_pkd3_batchPD_host, crop_and_patch_i8_pkd3_batchPD_host,
  crop_and_patch_u8_pln3_batchPD_host, crop_and_patch_f32_pln3_batchPD_host,
  crop_and_patch_f16_pln3_batchPD_host, crop_and_patch_i8_pln3_batchPD_host,
  crop_and_patch_u8_pln1_batchPD_host, crop_and_patch_f32_pln1_batchPD_host,
  crop_and_patch_f16_pln1_batchPD_host, crop_and_patch_i8_pln1_batchPD_host}
-----------------------------------------------------------------------------
glitch ==
  Operation("glitch", {"dstPtr", "outputFormatToggle", "srcPtr"},
            <<P("x_offset_r", "uintArr0"), P("y_offset_r", "uintArr1"),
              P("x_offset_g", "uintArr2"), P("y_offset_g", "uintArr3"),
              P("x_offset_b", "uintArr4"), P("y_offset_b", "uintArr5")>>,
            [OCL |-> Nothing, HIP |-> Nothing],
            [OCL |-> glitch_cl_batch, HIP |-> glitch_hip_batch_tensor])
glitch_helper(type, f) ==
  GpuHelper(glitch, type, f, "whole", "maxSrcSize")
glitch_host_helper(type, f) ==
  HostBatch(glitch, type, f, {"PD"}, "none")

glitch_u8_pkd3_batchPD_gpu == glitch_helper("u8", PKD3)
glitch_f32_pkd3_batchPD_gpu == glitch_helper("f32", PKD3)
glitch_f16_pkd3_batchPD_gpu == glitch_helper("f16", PKD3)
glitch_i8_pkd3_batchPD_gpu == glitch_helper("i8", PKD3)
glitch_u8_pln3_batchPD_gpu == glitch_helper("u8", PLN3)
glitch_f32_pln3_batchPD_gpu == glitch_helper("f32", PLN3)
glitch_f16_pln3_batchPD_gpu == glitch_helper("f16", PLN3)
glitch_i8_pln3_batchPD_gpu == glitch_helper("i8", PLN3)
glitch_u8_pkd3_batchPD_host == glitch_host_helper("u8", PKD3)
glitch_f32_pkd3_batchPD_host == glitch_host_helper("f32", PKD3)
glitch_f16_pkd3_batchPD_host == glitch_host_helper("f16", PKD3)
glitch_i8_pkd3_batchPD_host == glitch_host_helper("i8", PKD3)
glitch_u8_pln3_batchPD_host == glitch_host_helper("u8", PLN3)
glitch_f32_pln3_batchPD_host == glitch_host_helper("f32", PLN3)
glitch_f16_pln3_batchPD_host == glitch_host_helper("f16", PLN3)
glitch_i8_pln3_batchPD_host == glitch_host_helper("i8", PLN3)

glitch_functions == UNION {
  glitch_u8_pkd3_batchPD_gpu, glitch_f32_pkd3_batchPD_gpu,
  glitch_f16_pkd3_batchPD_gpu, glitch_i8_pkd3_batchPD_gpu,
  glitch_u8_pln3_batchPD_gpu, glitch_f32_pln3_batchPD_gpu,
  glitch_f16_pln3_batchPD_gpu, glitch_i8_pln3_batchPD_gpu,
  glitch_u8_pkd3_batchPD_host, glitch_f32_pkd3_batchPD_host,
  glitch_f16_pkd3_batchPD_host, glitch_i8_pkd3_batchPD_host,
  glitch_u8_pln3_batchPD_host, glitch_f32_pln3_batchPD_host,
  glitch_f16_pln3_batchPD_host, glitch_i8_pln3_batchPD_host}
-----------------------------------------------------------------------------
AdvancedAugmentationsFunctions ==
  UNION {non_linear_blend_functions, water_functions, erase_functions,
  color_cast_functions, lut_functions, crop_and_patch_functions,
  glitch_functions}
=============================================================================
