------------------------- MODULE ImageAugmentations -------------------------
(***************************************************************************)
(* The entry points of the first image augmentations                       *)
(* (rppi_image_augmentations.cpp, up to contrast):                         *)
(* for each operation its record, its helpers, one definition for each     *)
(* family of functions that the source keeps together, and their union.    *)
(***************************************************************************)
EXTENDS EntryPointShapes, OclWrappers, HipWrappers
-----------------------------------------------------------------------------
brightness ==
  Operation("brightness", {"dstPtr", "srcPtr"},
            <<P("alpha", "floatArr0"), P("beta", "floatArr1")>>,
            [OCL |-> brightness_cl, HIP |-> brightness_hip],
            [OCL |-> brightness_cl_batch, HIP |-> brightness_hip_batch])

brightness_u8_pln1_single_gpu == GpuSingle(brightness, "u8", PLN1)
brightness_u8_pln1_batch_gpu ==
  GpuBatch(brightness, "u8", PLN1, BatchShapes, "whole")
brightness_u8_pln1_ROIS_gpu ==
  GpuBatch(brightness, "u8", PLN1, BatchShapes, "one")
brightness_u8_pln1_ROID_gpu ==
  GpuBatch(brightness, "u8", PLN1, BatchShapes, "each")
brightness_u8_pln3_single_gpu == GpuSingle(brightness, "u8", PLN3)
brightness_u8_pln3_batch_gpu ==
  GpuBatch(brightness, "u8", PLN3, BatchShapes, "whole")
brightness_u8_pln3_ROIS_gpu ==
  GpuBatch(brightness, "u8", PLN3, BatchShapes, "one")
brightness_u8_pln3_ROID_gpu ==
  GpuBatch(brightness, "u8", PLN3, BatchShapes, "each")
brightness_u8_pkd3_single_gpu == GpuSingle(brightness, "u8", PKD3)
brightness_u8_pkd3_batch_gpu ==
  GpuBatch(brightness, "u8", PKD3, BatchShapes, "whole")
brightness_u8_pkd3_ROIS_gpu ==
  GpuBatch(brightness, "u8", PKD3, BatchShapes, "one")
brightness_u8_pkd3_ROID_gpu ==
  GpuBatch(brightness, "u8", PKD3, BatchShapes, "each")
brightness_u8_pln1_single_host == HostSingle(brightness, "u8", PLN1)
brightness_u8_pln1_batch_host ==
  HostBatch(brightness, "u8", PLN1, BatchShapes, "whole")
brightness_u8_pln1_ROIS_host ==
  HostBatch(brightness, "u8", PLN1, BatchShapes, "one")
brightness_u8_pln1_ROID_host ==
  HostBatch(brightness, "u8", PLN1, BatchShapes, "each")
brightness_u8_pln3_single_host == HostSingle(brightness, "u8", PLN3)
brightness_u8_pln3_batch_host ==
  HostBatch(brightness, "u8", PLN3, BatchShapes, "whole")
brightness_u8_pln3_ROIS_host ==
  HostBatch(brightness, "u8", PLN3, BatchShapes, "one")
brightness_u8_pln3_ROID_host ==
  HostBatch(brightness, "u8", PLN3, BatchShapes, "each")
brightness_u8_pkd3_single_host == HostSingle(brightness, "u8", PKD3)
brightness_u8_pkd3_batch_host ==
  HostBatch(brightness, "u8", PKD3, BatchShapes, "whole")
brightness_u8_pkd3_ROIS_host ==
  HostBatch(brightness, "u8", PKD3, BatchShapes, "one")
brightness_u8_pkd3_ROID_host ==
  HostBatch(brightness, "u8", PKD3, BatchShapes, "each")

brightness_functions == UNION {
  brightness_u8_pln1_single_gpu, brightness_u8_pln1_batch_gpu,
  brightness_u8_pln1_ROIS_gpu, brightness_u8_pln1_ROID_gpu,
  brightness_u8_pln3_single_gpu, brightness_u8_pln3_batch_gpu,
  brightness_u8_pln3_ROIS_gpu, brightness_u8_pln3_ROID_gpu,
  brightness_u8_pkd3_single_gpu, brightness_u8_pkd3_batch_gpu,
  brightness_u8_pkd3_ROIS_gpu, brightness_u8_pkd3_ROID_gpu,
  brightness_u8_pln1_single_host, brightness_u8_pln1_batch_host,
  brightness_u8_pln1_ROIS_host, brightness_u8_pln1_ROID_host,
  brightness_u8_pln3_single_host, brightness_u8_pln3_batch_host,
  brightness_u8_pln3_ROIS_host, brightness_u8_pln3_ROID_host,
  brightness_u8_pkd3_single_host, brightness_u8_pkd3_batch_host,
  brightness_u8_pkd3_ROIS_host, brightness_u8_pkd3_ROID_host}
-----------------------------------------------------------------------------
blend ==
  Operation("blend", {"dstPtr", "srcPtr1", "srcPtr2"},
            <<P("alpha", "floatArr0")>>,
            [OCL |-> blend_cl, HIP |-> blend_hip],
            [OCL |-> blend_cl_batch, HIP |-> blend_hip_batch])

blend_u8_pln1_single_gpu == GpuSingle(blend, "u8", PLN1)
blend_u8_pln1_batch_gpu == GpuBatch(blend, "u8", PLN1, BatchShapes, "whole")
blend_u8_pln1_ROIS_gpu == GpuBatch(blend, "u8", PLN1, BatchShapes, "one")
blend_u8_pln1_ROID_gpu == GpuBatch(blend, "u8", PLN1, BatchShapes, "each")
blend_u8_pln3_single_gpu == GpuSingle(blend, "u8", PLN3)
blend_u8_pln3_batch_gpu == GpuBatch(blend, "u8", PLN3, BatchShapes, "whole")
blend_u8_pln3_ROIS_gpu == GpuBatch(blend, "u8", PLN3, BatchShapes, "one")
blend_u8_pln3_ROID_gpu == GpuBatch(blend, "u8", PLN3, BatchShapes, "each")
blend_u8_pkd3_single_gpu == GpuSingle(blend, "u8", PKD3)
blend_u8_pkd3_batch_gpu == GpuBatch(blend, "u8", PKD3, BatchShapes, "whole")
blend_u8_pkd3_ROIS_gpu == GpuBatch(blend, "u8", PKD3, BatchShapes, "one")
blend_u8_pkd3_ROID_gpu == GpuBatch(blend, "u8", PKD3, BatchShapes, "each")
blend_u8_pln1_single_host == HostSingle(blend, "u8", PLN1)
blend_u8_pln1_batch_host == HostBatch(blend, "u8", PLN1, BatchShapes, "whole")
blend_u8_pln1_ROIS_host == HostBatch(blend, "u8", PLN1, BatchShapes, "one")
blend_u8_pln1_ROID_host == HostBatch(blend, "u8", PLN1, BatchShapes, "each")
blend_u8_pln3_single_host == HostSingle(blend, "u8", PLN3)
blend_u8_pln3_batch_host == HostBatch(blend, "u8", PLN3, BatchShapes, "whole")
blend_u8_pln3_ROIS_host == HostBatch(blend, "u8", PLN3, BatchShapes, "one")
blend_u8_pln3_ROID_host == HostBatch(blend, "u8", PLN3, BatchShapes, "each")
blend_u8_pkd3_single_host == HostSingle(blend, "u8", PKD3)
blend_u8_pkd3_batch_host == HostBatch(blend, "u8", PKD3, BatchShapes, "whole")
blend_u8_pkd3_ROIS_host == HostBatch(blend, "u8", PKD3, BatchShapes, "one")
blend_u8_pkd3_ROID_host == HostBatch(blend, "u8", PKD3, BatchShapes, "each")

blend_functions == UNION {
  blend_u8_pln1_single_gpu, blend_u8_pln1_batch_gpu, blend_u8_pln1_ROIS_gpu,
  blend_u8_pln1_ROID_gpu, blend_u8_pln3_single_gpu, blend_u8_pln3_batch_gpu,
  blend_u8_pln3_ROIS_gpu, blend_u8_pln3_ROID_gpu, blend_u8_pkd3_single_gpu,
  blend_u8_pkd3_batch_gpu, blend_u8_pkd3_ROIS_gpu, blend_u8_pkd3_ROID_gpu,
  blend_u8_pln1_single_host, blend_u8_pln1_batch_host, blend_u8_pln1_ROIS_host,
  blend_u8_pln1_ROID_host, blend_u8_pln3_single_host, blend_u8_pln3_batch_host,
  blend_u8_pln3_ROIS_host, blend_u8_pln3_ROID_host, blend_u8_pkd3_single_host,
  blend_u8_pkd3_batch_host, blend_u8_pkd3_ROIS_host, blend_u8_pkd3_ROID_host}
-----------------------------------------------------------------------------
gamma_correction ==
  Operation("gamma_correction", {"dstPtr", "srcPtr"},
            <<P("gamma", "floatArr0")>>,
            [OCL |-> gamma_correction_cl, HIP |-> gamma_correction_hip],
            [OCL |-> gamma_correction_cl_batch,
             HIP |-> gamma_correction_hip_batch])

gamma_correction_u8_pln1_single_gpu == GpuSingle(gamma_correction, "u8", PLN1)
gamma_correction_u8_pln1_batch_gpu ==
  GpuBatch(gamma_correction, "u8", PLN1, BatchShapes, "whole")
gamma_correction_u8_pln1_ROIS_gpu ==
  GpuBatch(gamma_correction, "u8", PLN1, BatchShapes, "one")
gamma_correction_u8_pln1_ROID_gpu ==
  GpuBatch(gamma_correction, "u8", PLN1, BatchShapes, "each")
gamma_correction_u8_pln3_single_gpu == GpuSingle(gamma_correction, "u8", PLN3)
gamma_correction_u8_pln3_batch_gpu ==
  GpuBatch(gamma_correction, "u8", PLN3, BatchShapes, "whole")
gamma_correction_u8_pln3_ROIS_gpu ==
  GpuBatch(gamma_correction, "u8", PLN3, BatchShapes, "one")
gamma_correction_u8_pln3_ROID_gpu ==
  GpuBatch(gamma_correction, "u8", PLN3, BatchShapes, "each")
gamma_correction_u8_pkd3_single_gpu == GpuSingle(gamma_correction, "u8", PKD3)
gamma_correction_u8_pkd3_batch_gpu ==
  GpuBatch(gamma_correction, "u8", PKD3, BatchShapes, "whole")
gamma_correction_u8_pkd3_ROIS_gpu ==
  GpuBatch(gamma_correction, "u8", PKD3, BatchShapes, "one")
gamma_correction_u8_pkd3_ROID_gpu ==
  GpuBatch(gamma_correction, "u8", PKD3, BatchShapes, "each")
gamma_correction_u8_pln1_single_host ==
  HostSingle(gamma_correction, "u8", PLN1)
gamma_correction_u8_pln1_batch_host ==
  HostBatch(gamma_correction, "u8", PLN1, BatchShapes, "whole")
gamma_correction_u8_pln1_ROIS_host ==
  HostBatch(gamma_correction, "u8", PLN1, BatchShapes, "one")
gamma_correction_u8_pln1_ROID_host ==
  HostBatch(gamma_correction, "u8", PLN1, BatchShapes, "each")
gamma_correction_u8_pln3_single_host ==
  HostSingle(gamma_correction, "u8", PLN3)
gamma_correction_u8_pln3_batch_host ==
  HostBatch(gamma_correction, "u8", PLN3, BatchShapes, "whole")
gamma_correction_u8_pln3_ROIS_host ==
  HostBatch(gamma_correction, "u8", PLN3, BatchShapes, "one")
gamma_correction_u8_pln3_ROID_host ==
  HostBatch(gamma_correction, "u8", PLN3, BatchShapes, "each")
gamma_correction_u8_pkd3_single_host ==
  HostSingle(gamma_correction, "u8", PKD3)
gamma_correction_u8_pkd3_batch_host ==
  HostBatch(gamma_correction, "u8", PKD3, BatchShapes, "whole")
gamma_correction_u8_pkd3_ROIS_host ==
  HostBatch(gamma_correction, "u8", PKD3, BatchShapes, "one")
gamma_correction_u8_pkd3_ROID_host ==
  HostBatch(gamma_correction, "u8", PKD3, BatchShapes, "each")

gamma_correction_functions == UNION {
  gamma_correction_u8_pln1_single_gpu, gamma_correction_u8_pln1_batch_gpu,
  gamma_correction_u8_pln1_ROIS_gpu, gamma_correction_u8_pln1_ROID_gpu,
  gamma_correction_u8_pln3_single_gpu, gamma_correction_u8_pln3_batch_gpu,
  gamma_correction_u8_pln3_ROIS_gpu, gamma_correction_u8_pln3_ROID_gpu,
  gamma_correction_u8_pkd3_single_gpu, gamma_correction_u8_pkd3_batch_gpu,
  gamma_correction_u8_pkd3_ROIS_gpu, gamma_correction_u8_pkd3_ROID_gpu,
  gamma_correction_u8_pln1_single_host, gamma_correction_u8_pln1_batch_host,
  gamma_correction_u8_pln1_ROIS_host, gamma_correction_u8_pln1_ROID_host,
  gamma_correction_u8_pln3_single_host, gamma_correction_u8_pln3_batch_host,
  gamma_correction_u8_pln3_ROIS_host, gamma_correction_u8_pln3_ROID_host,
  gamma_correction_u8_pkd3_single_host, gamma_correction_u8_pkd3_batch_host,
  gamma_correction_u8_pkd3_ROIS_host, gamma_correction_u8_pkd3_ROID_host}
-----------------------------------------------------------------------------
pixelate ==
  Operation("pixelate", {"dstPtr", "srcPtr"},
            <<>>,
            [OCL |-> pixelate_cl, HIP |-> pixelate_hip],
            [OCL |-> pixelate_cl_batch, HIP |-> pixelate_hip_batch])

pixelate_u8_pln1_single_gpu == GpuSingle(pixelate, "u8", PLN1)
pixelate_u8_pln1_batch_gpu ==
  GpuBatch(pixelate, "u8", PLN1, BatchShapes, "whole")
pixelate_u8_pln1_ROIS_gpu == GpuBatch(pixelate, "u8", PLN1, BatchShapes, "one")
pixelate_u8_pln1_ROID_gpu ==
  GpuBatch(pixelate, "u8", PLN1, BatchShapes, "each")
pixelate_u8_pln3_single_gpu == GpuSingle(pixelate, "u8", PLN3)
pixelate_u8_pln3_batch_gpu ==
  GpuBatch(pixelate, "u8", PLN3, BatchShapes, "whole")
pixelate_u8_pln3_ROIS_gpu == GpuBatch(pixelate, "u8", PLN3, BatchShapes, "one")
pixelate_u8_pln3_ROID_gpu ==
  GpuBatch(pixelate, "u8", PLN3, BatchShapes, "each")
pixelate_u8_pkd3_single_gpu == GpuSingle(pixelate, "u8", PKD3)
pixelate_u8_pkd3_batch_gpu ==
  GpuBatch(pixelate, "u8", PKD3, BatchShapes, "whole")
pixelate_u8_pkd3_ROIS_gpu == GpuBatch(pixelate, "u8", PKD3, BatchShapes, "one")
pixelate_u8_pkd3_ROID_gpu ==
  GpuBatch(pixelate, "u8", PKD3, BatchShapes, "each")
pixelate_u8_pln1_single_host == HostSingle(pixelate, "u8", PLN1)
pixelate_u8_pln1_batch_host ==
  HostBatch(pixelate, "u8", PLN1, BatchShapes, "whole")
pixelate_u8_pln1_ROIS_host ==
  HostBatch(pixelate, "u8", PLN1, BatchShapes, "one")
pixelate_u8_pln1_ROID_host ==
  HostBatch(pixelate, "u8", PLN1, BatchShapes, "each")
pixelate_u8_pln3_single_host == HostSingle(pixelate, "u8", PLN3)
pixelate_u8_pln3_batch_host ==
  HostBatch(pixelate, "u8", PLN3, BatchShapes, "whole")
pixelate_u8_pln3_ROIS_host ==
  HostBatch(pixelate, "u8", PLN3, BatchShapes, "one")
pixelate_u8_pln3_ROID_host ==
  HostBatch(pixelate, "u8", PLN3, BatchShapes, "each")
pixelate_u8_pkd3_single_host == HostSingle(pixelate, "u8", PKD3)
pixelate_u8_pkd3_batch_host ==
  HostBatch(pixelate, "u8", PKD3, BatchShapes, "whole")
pixelate_u8_pkd3_ROIS_host ==
  HostBatch(pixelate, "u8", PKD3, BatchShapes, "one")
pixelate_u8_pkd3_ROID_host ==
  HostBatch(pixelate, "u8", PKD3, BatchShapes, "each")

pixelate_functions == UNION {
  pixelate_u8_pln1_single_gpu, pixelate_u8_pln1_batch_gpu,
  pixelate_u8_pln1_ROIS_gpu, pixelate_u8_pln1_ROID_gpu,
  pixelate_u8_pln3_single_gpu, pixelate_u8_pln3_batch_gpu,
  pixelate_u8_pln3_ROIS_gpu, pixelate_u8_pln3_ROID_gpu,
  pixelate_u8_pkd3_single_gpu, pixelate_u8_pkd3_batch_gpu,
  pixelate_u8_pkd3_ROIS_gpu, pixelate_u8_pkd3_ROID_gpu,
  pixelate_u8_pln1_single_host, pixelate_u8_pln1_batch_host,
  pixelate_u8_pln1_ROIS_host, pixelate_u8_pln1_ROID_host,
  pixelate_u8_pln3_single_host, pixelate_u8_pln3_batch_host,
  pixelate_u8_pln3_ROIS_host, pixelate_u8_pln3_ROID_host,
  pixelate_u8_pkd3_single_host, pixelate_u8_pkd3_batch_host,
  pixelate_u8_pkd3_ROIS_host, pixelate_u8_pkd3_ROID_host}
-----------------------------------------------------------------------------
snow ==
  Operation("snow", {"dstPtr", "srcPtr"},
            <<P("snowValue", "floatArr0")>>,
            [OCL |-> snow_cl, HIP |-> snow_hip],
            [OCL |-> snow_cl_batch, HIP |-> snow_hip_batch])

snow_u8_pln1_single_gpu == GpuSingle(snow, "u8", PLN1)
snow_u8_pln1_batch_gpu == GpuBatch(snow, "u8", PLN1, BatchShapes, "whole")
snow_u8_pln1_ROIS_gpu == GpuBatch(snow, "u8", PLN1, BatchShapes, "one")
snow_u8_pln1_ROID_gpu == GpuBatch(snow, "u8", PLN1, BatchShapes, "each")
snow_u8_pln3_single_gpu == GpuSingle(snow, "u8", PLN3)
snow_u8_pln3_batch_gpu == GpuBatch(snow, "u8", PLN3, BatchShapes, "whole")
snow_u8_pln3_ROIS_gpu == GpuBatch(snow, "u8", PLN3, BatchShapes, "one")
snow_u8_pln3_ROID_gpu == GpuBatch(snow, "u8", PLN3, BatchShapes, "each")
snow_u8_pkd3_single_gpu == GpuSingle(snow, "u8", PKD3)
snow_u8_pkd3_batch_gpu == GpuBatch(snow, "u8", PKD3, BatchShapes, "whole")
snow_u8_pkd3_ROIS_gpu == GpuBatch(snow, "u8", PKD3, BatchShapes, "one")
snow_u8_pkd3_ROID_gpu == GpuBatch(snow, "u8", PKD3, BatchShapes, "each")
snow_u8_pln1_single_host == HostSingle(snow, "u8", PLN1)
snow_u8_pln1_batch_host == HostBatch(snow, "u8", PLN1, BatchShapes, "whole")
snow_u8_pln1_ROIS_host == HostBatch(snow, "u8", PLN1, BatchShapes, "one")
snow_u8_pln1_ROID_host == HostBatch(snow, "u8", PLN1, BatchShapes, "each")
snow_u8_pln3_single_host == HostSingle(snow, "u8", PLN3)
snow_u8_pln3_batch_host == HostBatch(snow, "u8", PLN3, BatchShapes, "whole")
snow_u8_pln3_ROIS_host == HostBatch(snow, "u8", PLN3, BatchShapes, "one")
snow_u8_pln3_ROID_host == HostBatch(snow, "u8", PLN3, BatchShapes, "each")
snow_u8_pkd3_single_host == HostSingle(snow, "u8", PKD3)
snow_u8_pkd3_batch_host == HostBatch(snow, "u8", PKD3, BatchShapes, "whole")
snow_u8_pkd3_ROIS_host == HostBatch(snow, "u8", PKD3, BatchShapes, "one")
snow_u8_pkd3_ROID_host == HostBatch(snow, "u8", PKD3, BatchShapes, "each")

snow_functions == UNION {
  snow_u8_pln1_single_gpu, snow_u8_pln1_batch_gpu, snow_u8_pln1_ROIS_gpu,
  snow_u8_pln1_ROID_gpu, snow_u8_pln3_single_gpu, snow_u8_pln3_batch_gpu,
  snow_u8_pln3_ROIS_gpu, snow_u8_pln3_ROID_gpu, snow_u8_pkd3_single_gpu,
  snow_u8_pkd3_batch_gpu, snow_u8_pkd3_ROIS_gpu, snow_u8_pkd3_ROID_gpu,
  snow_u8_pln1_single_host, snow_u8_pln1_batch_host, snow_u8_pln1_ROIS_host,
  snow_u8_pln1_ROID_host, snow_u8_pln3_single_host, snow_u8_pln3_batch_host,
  snow_u8_pln3_ROIS_host, snow_u8_pln3_ROID_host, snow_u8_pkd3_single_host,
  snow_u8_pkd3_batch_host, snow_u8_pkd3_ROIS_host, snow_u8_pkd3_ROID_host}
-----------------------------------------------------------------------------
jitter ==
  Operation("jitter", {"dstPtr", "srcPtr"},
            <<P("kernelSize", "uintArr0")>>,
            [OCL |-> jitter_cl, HIP |-> jitter_hip],
            [OCL |-> jitter_cl_batch, HIP |-> jitter_hip_batch])

jitter_u8_pln1_single_gpu == GpuSingle(jitter, "u8", PLN1)
jitter_u8_pln1_batch_gpu == GpuBatch(jitter, "u8", PLN1, BatchShapes, "whole")
jitter_u8_pln1_ROIS_gpu == GpuBatch(jitter, "u8", PLN1, BatchShapes, "one")
jitter_u8_pln1_ROID_gpu == GpuBatch(jitter, "u8", PLN1, BatchShapes, "each")
jitter_u8_pln3_single_gpu == GpuSingle(jitter, "u8", PLN3)
jitter_u8_pln3_batch_gpu == GpuBatch(jitter, "u8", PLN3, BatchShapes, "whole")
jitter_u8_pln3_ROIS_gpu == GpuBatch(jitter, "u8", PLN3, BatchShapes, "one")
jitter_u8_pln3_ROID_gpu == GpuBatch(jitter, "u8", PLN3, BatchShapes, "each")
jitter_u8_pkd3_single_gpu == GpuSingle(jitter, "u8", PKD3)
jitter_u8_pkd3_batch_gpu == GpuBatch(jitter, "u8", PKD3, BatchShapes, "whole")
jitter_u8_pkd3_ROIS_gpu == GpuBatch(jitter, "u8", PKD3, BatchShapes, "one")
jitter_u8_pkd3_ROID_gpu == GpuBatch(jitter, "u8", PKD3, BatchShapes, "each")
jitter_u8_pln1_single_host == HostSingle(jitter, "u8", PLN1)
jitter_u8_pln1_batch_host ==
  HostBatch(jitter, "u8", PLN1, BatchShapes, "whole")
jitter_u8_pln1_ROIS_host == HostBatch(jitter, "u8", PLN1, BatchShapes, "one")
jitter_u8_pln1_ROID_host == HostBatch(jitter, "u8", PLN1, BatchShapes, "each")
jitter_u8_pln3_single_host == HostSingle(jitter, "u8", PLN3)
jitter_u8_pln3_batch_host ==
  HostBatch(jitter, "u8", PLN3, BatchShapes, "whole")
jitter_u8_pln3_ROIS_host == HostBatch(jitter, "u8", PLN3, BatchShapes, "one")
jitter_u8_pln3_ROID_host == HostBatch(jitter, "u8", PLN3, BatchShapes, "each")
jitter_u8_pkd3_single_host == HostSingle(jitter, "u8", PKD3)
jitter_u8_pkd3_batch_host ==
  HostBatch(jitter, "u8", PKD3, BatchShapes, "whole")
jitter_u8_pkd3_ROIS_host == HostBatch(jitter, "u8", PKD3, BatchShapes, "one")
jitter_u8_pkd3_ROID_host == HostBatch(jitter, "u8", PKD3, BatchShapes, "each")

jitter_functions == UNION {
  jitter_u8_pln1_single_gpu, jitter_u8_pln1_batch_gpu, jitter_u8_pln1_ROIS_gpu,
  jitter_u8_pln1_ROID_gpu, jitter_u8_pln3_single_gpu, jitter_u8_pln3_batch_gpu,
  jitter_u8_pln3_ROIS_gpu, jitter_u8_pln3_ROID_gpu, jitter_u8_pkd3_single_gpu,
  jitter_u8_pkd3_batch_gpu, jitter_u8_pkd3_ROIS_gpu, jitter_u8_pkd3_ROID_gpu,
  jitter_u8_pln1_single_host, jitter_u8_pln1_batch_host,
  jitter_u8_pln1_ROIS_host, jitter_u8_pln1_ROID_host,
  jitter_u8_pln3_single_host, jitter_u8_pln3_batch_host,
  jitter_u8_pln3_ROIS_host, jitter_u8_pln3_ROID_host,
  jitter_u8_pkd3_single_host, jitter_u8_pkd3_batch_host,
  jitter_u8_pkd3_ROIS_host, jitter_u8_pkd3_ROID_host}
-----------------------------------------------------------------------------
contrast ==
  Operation("contrast", {"dstPtr", "srcPtr"},
            <<P("newMin", "uintArr0"), P("newMax", "uintArr1")>>,
            [OCL |-> contrast_cl, HIP |-> contrast_hip],
            [OCL |-> contrast_cl_batch, HIP |-> contrast_hip_batch])

contrast_u8_pln1_single_gpu == GpuSingle(contrast, "u8", PLN1)
contrast_u8_pln1_batch_gpu ==
  GpuBatch(contrast, "u8", PLN1, BatchShapes, "whole")
contrast_u8_pln1_ROIS_gpu == GpuBatch(contrast, "u8", PLN1, BatchShapes, "one")
contrast_u8_pln1_ROID_gpu ==
  GpuBatch(contrast, "u8", PLN1, BatchShapes, "each")
contrast_u8_pln3_single_gpu == GpuSingle(contrast, "u8", PLN3)
contrast_u8_pln3_batch_gpu ==
  GpuBatch(contrast, "u8", PLN3, BatchShapes, "whole")
contrast_u8_pln3_ROIS_gpu == GpuBatch(contrast, "u8", PLN3, BatchShapes, "one")
contrast_u8_pln3_ROID_gpu ==
  GpuBatch(contrast, "u8", PLN3, BatchShapes, "each")
contrast_u8_pkd3_single_gpu == GpuSingle(contrast, "u8", PKD3)
contrast_u8_pkd3_batch_gpu ==
  GpuBatch(contrast, "u8", PKD3, BatchShapes, "whole")
contrast_u8_pkd3_ROIS_gpu == GpuBatch(contrast, "u8", PKD3, BatchShapes, "one")
contrast_u8_pkd3_ROID_gpu ==
  GpuBatch(contrast, "u8", PKD3, BatchShapes, "each")
contrast_u8_pln1_single_host == HostSingle(contrast, "u8", PLN1)
contrast_u8_pln1_batch_host ==
  HostBatch(contrast, "u8", PLN1, BatchShapes, "whole")
contrast_u8_pln1_ROIS_host ==
  HostBatch(contrast, "u8", PLN1, BatchShapes, "one")
contrast_u8_pln1_ROID_host ==
  HostBatch(contrast, "u8", PLN1, BatchShapes, "each")
contrast_u8_pln3_single_host == HostSingle(contrast, "u8", PLN3)
contrast_u8_pln3_batch_host ==
  HostBatch(contrast, "u8", PLN3, BatchShapes, "whole")
contrast_u8_pln3_ROIS_host ==
  HostBatch(contrast, "u8", PLN3, BatchShapes, "one")
contrast_u8_pln3_ROID_host ==
  HostBatch(contrast, "u8", PLN3, BatchShapes, "each")
contrast_u8_pkd3_single_host == HostSingle(contrast, "u8", PKD3)
contrast_u8_pkd3_batch_host ==
  HostBatch(contrast, "u8", PKD3, BatchShapes, "whole")
contrast_u8_pkd3_ROIS_host ==
  HostBatch(contrast, "u8", PKD3, BatchShapes, "one")
contrast_u8_pkd3_ROID_host ==
  HostBatch(contrast, "u8", PKD3, BatchShapes, "each")

contrast_functions == UNION {
  contrast_u8_pln1_single_gpu, contrast_u8_pln1_batch_gpu,
  contrast_u8_pln1_ROIS_gpu, contrast_u8_pln1_ROID_gpu,
  contrast_u8_pln3_single_gpu, contrast_u8_pln3_batch_gpu,
  contrast_u8_pln3_ROIS_gpu, contrast_u8_pln3_ROID_gpu,
  contrast_u8_pkd3_single_gpu, contrast_u8_pkd3_batch_gpu,
  contrast_u8_pkd3_ROIS_gpu, contrast_u8_pkd3_ROID_gpu,
  contrast_u8_pln1_single_host, contrast_u8_pln1_batch_host,
  contrast_u8_pln1_ROIS_host, contrast_u8_pln1_ROID_host,
  contrast_u8_pln3_single_host, contrast_u8_pln3_batch_host,
  contrast_u8_pln3_ROIS_host, contrast_u8_pln3_ROID_host,
  contrast_u8_pkd3_single_host, contrast_u8_pkd3_batch_host,
  contrast_u8_pkd3_ROIS_host, contrast_u8_pkd3_ROID_host}
-----------------------------------------------------------------------------
ImageAugmentationsFunctions ==
  UNION {brightness_functions, blend_functions, gamma_correction_functions,
    pixelate_functions, snow_functions, jitter_functions, contrast_functions}
=============================================================================
