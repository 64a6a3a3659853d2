------------------------ MODULE EffectAugmentations -------------------------
(***************************************************************************)
(* The entry points of the other image augmentations                       *)
(* (rppi_image_augmentations.cpp, from exposure on):                       *)
(* for each operation its record, its helpers, one definition for each     *)
(* family of functions that the source keeps together, and their union.    *)
(***************************************************************************)
EXTENDS EntryPointShapes, OclWrappers, HipWrappers
-----------------------------------------------------------------------------
exposure ==
  Operation("exposure", {"dstPtr", "srcPtr"},
            <<P("exposureValue", "floatArr0")>>,
            [OCL |-> exposure_cl, HIP |-> exposure_hip],
            [OCL |-> exposure_cl_batch, HIP |-> exposure_hip_batch])

exposure_u8_pln1_single_gpu == GpuSingle(exposure, "u8", PLN1)
exposure_u8_pln1_batch_gpu ==
  GpuBatch(exposure, "u8", PLN1, BatchShapes, "whole")
exposure_u8_pln1_ROIS_gpu == GpuBatch(exposure, "u8", PLN1, BatchShapes, "one")
exposure_u8_pln1_ROID_gpu ==
  GpuBatch(exposure, "u8", PLN1, BatchShapes, "each")
exposure_u8_pln3_single_gpu == GpuSingle(exposure, "u8", PLN3)
exposure_u8_pln3_batch_gpu ==
  GpuBatch(exposure, "u8", PLN3, BatchShapes, "whole")
exposure_u8_pln3_ROIS_gpu == GpuBatch(exposure, "u8", PLN3, BatchShapes, "one")
exposure_u8_pln3_ROID_gpu ==
  GpuBatch(exposure, "u8", PLN3, BatchShapes, "each")
exposure_u8_pkd3_single_gpu == GpuSingle(exposure, "u8", PKD3)
exposure_u8_pkd3_batch_gpu ==
  GpuBatch(exposure, "u8", PKD3, BatchShapes, "whole")
exposure_u8_pkd3_ROIS_gpu == GpuBatch(exposure, "u8", PKD3, BatchShapes, "one")
exposure_u8_pkd3_ROID_gpu ==
  GpuBatch(exposure, "u8", PKD3, BatchShapes, "each")
exposure_u8_pln1_single_host == HostSingle(exposure, "u8", PLN1)
exposure_u8_pln1_batch_host ==
  HostBatch(exposure, "u8", PLN1, BatchShapes, "whole")
exposure_u8_pln1_ROIS_host ==
  HostBatch(exposure, "u8", PLN1, BatchShapes, "one")
exposure_u8_pln1_ROID_host ==
  HostBatch(exposure, "u8", PLN1, BatchShapes, "each")
exposure_u8_pln3_single_host == HostSingle(exposure, "u8", PLN3)
exposure_u8_pln3_batch_host ==
  HostBatch(exposure, "u8", PLN3, BatchShapes, "whole")
exposure_u8_pln3_ROIS_host ==
  HostBatch(exposure, "u8", PLN3, BatchShapes, "one")
exposure_u8_pln3_ROID_host ==
  HostBatch(exposure, "u8", PLN3, BatchShapes, "each")
exposure_u8_pkd3_single_host == HostSingle(exposure, "u8", PKD3)
exposure_u8_pkd3_batch_host ==
  HostBatch(exposure, "u8", PKD3, BatchShapes, "whole")
exposure_u8_pkd3_ROIS_host ==
  HostBatch(exposure, "u8", PKD3, BatchShapes, "one")
exposure_u8_pkd3_ROID_host ==
  HostBatch(exposure, "u8", PKD3, BatchShapes, "each")

exposure_functions == UNION {
  exposure_u8_pln1_single_gpu, exposure_u8_pln1_batch_gpu,
  exposure_u8_pln1_ROIS_gpu, exposure_u8_pln1_ROID_gpu,
  exposure_u8_pln3_single_gpu, exposure_u8_pln3_batch_gpu,
  exposure_u8_pln3_ROIS_gpu, exposure_u8_pln3_ROID_gpu,
  exposure_u8_pkd3_single_gpu, exposure_u8_pkd3_batch_gpu,
  exposure_u8_pkd3_ROIS_gpu, exposure_u8_pkd3_ROID_gpu,
  exposure_u8_pln1_single_host, exposure_u8_pln1_batch_host,
  exposure_u8_pln1_ROIS_host, exposure_u8_pln1_ROID_host,
  exposure_u8_pln3_single_host, exposure_u8_pln3_batch_host,
  exposure_u8_pln3_ROIS_host, exposure_u8_pln3_ROID_host,
  exposure_u8_pkd3_single_host, exposure_u8_pkd3_batch_host,
  exposure_u8_pkd3_ROIS_host, exposure_u8_pkd3_ROID_host}
-----------------------------------------------------------------------------
blur ==
  Operation("blur", {"dstPtr", "srcPtr"},
            <<P("kernelSize", "uintArr0")>>,
            [OCL |-> box_filter_cl, HIP |-> box_filter_hip],
            [OCL |-> box_filter_cl_batch, HIP |-> box_filter_hip_batch])

blur_u8_pln1_single_gpu == GpuSingle(blur, "u8", PLN1)
blur_u8_pln1_batch_gpu == GpuBatch(blur, "u8", PLN1, BatchShapes, "whole")
blur_u8_pln1_ROIS_gpu == GpuBatch(blur, "u8", PLN1, BatchShapes, "one")
blur_u8_pln1_ROID_gpu == GpuBatch(blur, "u8", PLN1, BatchShapes, "each")
blur_u8_pln3_single_gpu == GpuSingle(blur, "u8", PLN3)
blur_u8_pln3_batch_gpu == GpuBatch(blur, "u8", PLN3, BatchShapes, "whole")
blur_u8_pln3_ROIS_gpu == GpuBatch(blur, "u8", PLN3, BatchShapes, "one")
blur_u8_pln3_ROID_gpu == GpuBatch(blur, "u8", PLN3, BatchShapes, "each")
blur_u8_pkd3_single_gpu == GpuSingle(blur, "u8", PKD3)
blur_u8_pkd3_batch_gpu == GpuBatch(blur, "u8", PKD3, BatchShapes, "whole")
blur_u8_pkd3_ROIS_gpu == GpuBatch(blur, "u8", PKD3, BatchShapes, "one")
blur_u8_pkd3_ROID_gpu == GpuBatch(blur, "u8", PKD3, BatchShapes, "each")
blur_u8_pln1_single_host == HostSingle(blur, "u8", PLN1)
blur_u8_pln1_batch_host == HostBatch(blur, "u8", PLN1, BatchShapes, "whole")
blur_u8_pln1_ROIS_host == HostBatch(blur, "u8", PLN1, BatchShapes, "one")
blur_u8_pln1_ROID_host == HostBatch(blur, "u8", PLN1, BatchShapes, "each")
blur_u8_pln3_single_host == HostSingle(blur, "u8", PLN3)
blur_u8_pln3_batch_host == HostBatch(blur, "u8", PLN3, BatchShapes, "whole")
blur_u8_pln3_ROIS_host == HostBatch(blur, "u8", PLN3, BatchShapes, "one")
blur_u8_pln3_ROID_host == HostBatch(blur, "u8", PLN3, BatchShapes, "each")
blur_u8_pkd3_single_host == HostSingle(blur, "u8", PKD3)
blur_u8_pkd3_batch_host == HostBatch(blur, "u8", PKD3, BatchShapes, "whole")
blur_u8_pkd3_ROIS_host == HostBatch(blur, "u8", PKD3, BatchShapes, "one")
blur_u8_pkd3_ROID_host == HostBatch(blur, "u8", PKD3, BatchShapes, "each")

blur_functions == UNION {
  blur_u8_pln1_single_gpu, blur_u8_pln1_batch_gpu, blur_u8_pln1_ROIS_gpu,
  blur_u8_pln1_ROID_gpu, blur_u8_pln3_single_gpu, blur_u8_pln3_batch_gpu,
  blur_u8_pln3_ROIS_gpu, blur_u8_pln3_ROID_gpu, blur_u8_pkd3_single_gpu,
  blur_u8_pkd3_batch_gpu, blur_u8_pkd3_ROIS_gpu, blur_u8_pkd3_ROID_gpu,
  blur_u8_pln1_single_host, blur_u8_pln1_batch_host, blur_u8_pln1_ROIS_host,
  blur_u8_pln1_ROID_host, blur_u8_pln3_single_host, blur_u8_pln3_batch_host,
  blur_u8_pln3_ROIS_host, blur_u8_pln3_ROID_host, blur_u8_pkd3_single_host,
  blur_u8_pkd3_batch_host, blur_u8_pkd3_ROIS_host, blur_u8_pkd3_ROID_host}
-----------------------------------------------------------------------------
rain ==
  Operation("rain", {"dstPtr", "srcPtr"},
            <<P("rainPercentage", "floatArr0"), P("rainWidth", "uintArr1"),
              P("rainHeight", "uintArr2"), P("transperancy", "floatArr3")>>,
            [OCL |-> rain_cl, HIP |-> rain_hip],
            [OCL |-> rain_cl_batch, HIP |-> rain_hip_batch])

rain_u8_pln1_gpu == GpuPlain(rain, "u8", PLN1)
rain_u8_pln1_batch_gpu == GpuBatch(rain, "u8", PLN1, BatchShapes, "none")
rain_u8_pln3_gpu == GpuPlain(rain, "u8", PLN3)
rain_u8_pln3_batch_gpu == GpuBatch(rain, "u8", PLN3, BatchShapes, "none")
rain_u8_pkd3_gpu == GpuPlain(rain, "u8", PKD3)
rain_u8_pkd3_batch_gpu == GpuBatch(rain, "u8", PKD3, BatchShapes, "none")
rain_u8_pln1_host == HostPlain(rain, "u8", PLN1)
rain_u8_pln1_batch_host == HostBatch(rain, "u8", PLN1, BatchShapes, "none")
rain_u8_pln3_host == HostPlain(rain, "u8", PLN3)
rain_u8_pln3_batch_host == HostBatch(rain, "u8", PLN3, BatchShapes, "none")
rain_u8_pkd3_host == HostPlain(rain, "u8", PKD3)
rain_u8_pkd3_batch_host == HostBatch(rain, "u8", PKD3, BatchShapes, "none")

rain_functions == UNION {
  rain_u8_pln1_gpu, rain_u8_pln1_batch_gpu, rain_u8_pln3_gpu,
  rain_u8_pln3_batch_gpu, rain_u8_pkd3_gpu, rain_u8_pkd3_batch_gpu,
  rain_u8_pln1_host, rain_u8_pln1_batch_host, rain_u8_pln3_host,
  rain_u8_pln3_batch_host, rain_u8_pkd3_host, rain_u8_pkd3_batch_host}
-----------------------------------------------------------------------------
fog ==
  Operation("fog", {"dstPtr", "srcPtr"},
            <<P("fogValue", "floatArr0")>>,
            [OCL |-> fog_cl, HIP |-> fog_hip],
            [OCL |-> fog_cl_batch, HIP |-> fog_hip_batch])

fog_u8_pln1_gpu == GpuPlain(fog, "u8", PLN1)
fog_u8_pln1_batch_gpu == GpuBatch(fog, "u8", PLN1, BatchShapes, "none")
fog_u8_pln3_gpu == GpuPlain(fog, "u8", PLN3)
fog_u8_pln3_batch_gpu == GpuBatch(fog, "u8", PLN3, BatchShapes, "none")
fog_u8_pkd3_gpu == GpuPlain(fog, "u8", PKD3)
fog_u8_pkd3_batch_gpu == GpuBatch(fog, "u8", PKD3, BatchShapes, "none")
fog_u8_pln1_host == HostPlain(fog, "u8", PLN1)
fog_u8_pln1_batch_host == HostBatch(fog, "u8", PLN1, BatchShapes, "none")
fog_u8_pln3_host == HostPlain(fog, "u8", PLN3)
fog_u8_pln3_batch_host == HostBatch(fog, "u8", PLN3, BatchShapes, "none")
fog_u8_pkd3_host == HostPlain(fog, "u8", PKD3)
fog_u8_pkd3_batch_host == HostBatch(fog, "u8", PKD3, BatchShapes, "none")

fog_functions == UNION {
  fog_u8_pln1_gpu, fog_u8_pln1_batch_gpu, fog_u8_pln3_gpu,
  fog_u8_pln3_batch_gpu, fog_u8_pkd3_gpu, fog_u8_pkd3_batch_gpu,
  fog_u8_pln1_host, fog_u8_pln1_batch_host, fog_u8_pln3_host,
  fog_u8_pln3_batch_host, fog_u8_pkd3_host, fog_u8_pkd3_batch_host}
-----------------------------------------------------------------------------
histogram_balance ==
  Operation("histogram_balance", {"dstPtr", "srcPtr"},
            <<>>,
            [OCL |-> histogram_balance_cl, HIP |-> histogram_balance_hip],
            [OCL |-> histogram_balance_cl_batch,
             HIP |-> histogram_balance_hip_batch])

histogram_balance_u8_pln1_gpu == GpuPlain(histogram_balance, "u8", PLN1)
histogram_balance_u8_pln1_batch_gpu ==
  GpuBatch(histogram_balance, "u8", PLN1, BatchShapes, "none")
histogram_balance_u8_pln3_gpu == GpuPlain(histogram_balance, "u8", PLN3)
histogram_balance_u8_pln3_batch_gpu ==
  GpuBatch(histogram_balance, "u8", PLN3, BatchShapes, "none")
histogram_balance_u8_pkd3_gpu == GpuPlain(histogram_balance, "u8", PKD3)
histogram_balance_u8_pkd3_batch_gpu ==
  GpuBatch(histogram_balance, "u8", PKD3, BatchShapes, "none")
histogram_balance_u8_pln1_host == HostPlain(histogram_balance, "u8", PLN1)
histogram_balance_u8_pln1_batch_host ==
  HostBatch(histogram_balance, "u8", PLN1, BatchShapes, "none")
histogram_balance_u8_pln3_host == HostPlain(histogram_balance, "u8", PLN3)
histogram_balance_u8_pln3_batch_host ==
  HostBatch(histogram_balance, "u8", PLN3, BatchShapes, "none")
histogram_balance_u8_pkd3_host == HostPlain(histogram_balance, "u8", PKD3)
histogram_balance_u8_pkd3_batch_host ==
  HostBatch(histogram_balance, "u8", PKD3, BatchShapes, "none")

histogram_balance_functions == UNION {
  histogram_balance_u8_pln1_gpu, histogram_balance_u8_pln1_batch_gpu,
  histogram_balance_u8_pln3_gpu, histogram_balance_u8_pln3_batch_gpu,
  histogram_balance_u8_pkd3_gpu, histogram_balance_u8_pkd3_batch_gpu,
  histogram_balance_u8_pln1_host, histogram_balance_u8_pln1_batch_host,
  histogram_balance_u8_pln3_host, histogram_balance_u8_pln3_batch_host,
  histogram_balance_u8_pkd3_host, histogram_balance_u8_pkd3_batch_host}
-----------------------------------------------------------------------------
noise ==
  Operation("noise", {"dstPtr", "srcPtr"},
            <<P("noiseProbability", "floatArr0")>>,
            [OCL |-> noise_cl, HIP |-> noise_hip],
            [OCL |-> noise_cl_batch, HIP |-> noise_hip_batch])

noise_u8_pln1_single_gpu == GpuSingle(noise, "u8", PLN1)
noise_u8_pln1_batch_gpu == GpuBatch(noise, "u8", PLN1, BatchShapes, "whole")
noise_u8_pln1_ROIS_gpu == GpuBatch(noise, "u8", PLN1, BatchShapes, "one")
noise_u8_pln1_ROID_gpu == GpuBatch(noise, "u8", PLN1, BatchShapes, "each")
noise_u8_pln3_single_gpu == GpuSingle(noise, "u8", PLN3)
noise_u8_pln3_batch_gpu == GpuBatch(noise, "u8", PLN3, BatchShapes, "whole")
noise_u8_pln3_ROIS_gpu == GpuBatch(noise, "u8", PLN3, BatchShapes, "one")
noise_u8_pln3_ROID_gpu == GpuBatch(noise, "u8", PLN3, BatchShapes, "each")
noise_u8_pkd3_single_gpu == GpuSingle(noise, "u8", PKD3)
noise_u8_pkd3_batch_gpu == GpuBatch(noise, "u8", PKD3, BatchShapes, "whole")
noise_u8_pkd3_ROIS_gpu == GpuBatch(noise, "u8", PKD3, BatchShapes, "one")
noise_u8_pkd3_ROID_gpu == GpuBatch(noise, "u8", PKD3, BatchShapes, "each")
noise_u8_pln1_single_host == HostSingle(noise, "u8", PLN1)
noise_u8_pln1_batch_host == HostBatch(noise, "u8", PLN1, BatchShapes, "whole")
noise_u8_pln1_ROIS_host == HostBatch(noise, "u8", PLN1, BatchShapes, "one")
noise_u8_pln1_ROID_host == HostBatch(noise, "u8", PLN1, BatchShapes, "each")
noise_u8_pln3_single_host == HostSingle(noise, "u8", PLN3)
noise_u8_pln3_batch_host == HostBatch(noise, "u8", PLN3, BatchShapes, "whole")
noise_u8_pln3_ROIS_host == HostBatch(noise, "u8", PLN3, BatchShapes, "one")
noise_u8_pln3_ROID_host == HostBatch(noise, "u8", PLN3, BatchShapes, "each")
noise_u8_pkd3_single_host == HostSingle(noise, "u8", PKD3)
noise_u8_pkd3_batch_host == HostBatch(noise, "u8", PKD3, BatchShapes, "whole")
noise_u8_pkd3_ROIS_host == HostBatch(noise, "u8", PKD3, BatchShapes, "one")
noise_u8_pkd3_ROID_host == HostBatch(noise, "u8", PKD3, BatchShapes, "each")

noise_functions == UNION {
  noise_u8_pln1_single_gpu, noise_u8_pln1_batch_gpu, noise_u8_pln1_ROIS_gpu,
  noise_u8_pln1_ROID_gpu, noise_u8_pln3_single_gpu, noise_u8_pln3_batch_gpu,
  noise_u8_pln3_ROIS_gpu, noise_u8_pln3_ROID_gpu, noise_u8_pkd3_single_gpu,
  noise_u8_pkd3_batch_gpu, noise_u8_pkd3_ROIS_gpu, noise_u8_pkd3_ROID_gpu,
  noise_u8_pln1_single_host, noise_u8_pln1_batch_host, noise_u8_pln1_ROIS_host,
  noise_u8_pln1_ROID_host, noise_u8_pln3_single_host, noise_u8_pln3_batch_host,
  noise_u8_pln3_ROIS_host, noise_u8_pln3_ROID_host, noise_u8_pkd3_single_host,
  noise_u8_pkd3_batch_host, noise_u8_pkd3_ROIS_host, noise_u8_pkd3_ROID_host}
-----------------------------------------------------------------------------
random_crop_letterbox ==
  HostIgnoring({"roiPoints"}, Resizing(
    Operation("random_crop_letterbox", {"dstPtr", "srcPtr"},
              <<P("xRoiBegin", "uintArr0"), P("xRoiEnd", "uintArr1"),
                P("yRoiBegin", "uintArr2"), P("yRoiEnd", "uintArr3")>>,
              [OCL |-> resize_crop_cl, HIP |-> resize_crop_hip],
              [OCL |-> resize_crop_cl_batch, HIP |-> resize_crop_hip_batch])))

random_crop_letterbox_u8_pln1_single_gpu ==
  GpuSingle(random_crop_letterbox, "u8", PLN1)
random_crop_letterbox_u8_pln1_batch_gpu ==
  GpuBatch(random_crop_letterbox, "u8", PLN1, BatchShapes \ {"PD"}, "whole")
  \cup Calling([OCL |-> random_crop_letterbox_cl_batch,
                HIP |-> random_crop_letterbox_hip_batch],
              GpuBatch(random_crop_letterbox, "u8", PLN1, {"PD"}, "whole"))
random_crop_letterbox_u8_pln1_ROIS_gpu ==
  GpuBatch(random_crop_letterbox, "u8", PLN1, BatchShapes, "one")
random_crop_letterbox_u8_pln1_ROID_gpu ==
  GpuBatch(random_crop_letterbox, "u8", PLN1, BatchShapes, "each")
random_crop_letterbox_u8_pln3_single_gpu ==
  GpuSingle(random_crop_letterbox, "u8", PLN3)
random_crop_letterbox_u8_pln3_batch_gpu ==
  GpuBatch(random_crop_letterbox, "u8", PLN3, BatchShapes \ {"PD"}, "whole")
  \cup Calling([OCL |-> random_crop_letterbox_cl_batch,
                HIP |-> random_crop_letterbox_hip_batch],
              GpuBatch(random_crop_letterbox, "u8", PLN3, {"PD"}, "whole"))
random_crop_letterbox_u8_pln3_ROIS_gpu ==
  GpuBatch(random_crop_letterbox, "u8", PLN3, BatchShapes, "one")
random_crop_letterbox_u8_pln3_ROID_gpu ==
  GpuBatch(random_crop_letterbox, "u8", PLN3, BatchShapes, "each")
random_crop_letterbox_u8_pkd3_single_gpu ==
  GpuSingle(random_crop_letterbox, "u8", PKD3)
random_crop_letterbox_u8_pkd3_batch_gpu ==
  GpuBatch(random_crop_letterbox, "u8", PKD3, BatchShapes \ {"PD"}, "whole")
  \cup Calling([OCL |-> random_crop_letterbox_cl_batch,
                HIP |-> random_crop_letterbox_hip_batch],
              GpuBatch(random_crop_letterbox, "u8", PKD3, {"PD"}, "whole"))
random_crop_letterbox_u8_pkd3_ROIS_gpu ==
  GpuBatch(random_crop_letterbox, "u8", PKD3, BatchShapes, "one")
random_crop_letterbox_u8_pkd3_ROID_gpu ==
  GpuBatch(random_crop_letterbox, "u8", PKD3, BatchShapes, "each")
random_crop_letterbox_u8_pln1_single_host ==
  HostSingle(random_crop_letterbox, "u8", PLN1)
random_crop_letterbox_u8_pln1_batch_host ==
  HostBatch(random_crop_letterbox, "u8", PLN1, BatchShapes, "whole")
random_crop_letterbox_u8_pln1_ROIS_host ==
  HostBatch(random_crop_letterbox, "u8", PLN1, BatchShapes, "one")
random_crop_letterbox_u8_pln1_ROID_host ==
  HostBatch(random_crop_letterbox, "u8", PLN1, BatchShapes, "each")
random_crop_letterbox_u8_pln3_single_host ==
  HostSingle(random_crop_letterbox, "u8", PLN3)
random_crop_letterbox_u8_pln3_batch_host ==
  HostBatch(random_crop_letterbox, "u8", PLN3, BatchShapes, "whole")
random_crop_letterbox_u8_pln3_ROIS_host ==
  HostBatch(random_crop_letterbox, "u8", PLN3, BatchShapes, "one")
random_crop_letterbox_u8_pln3_ROID_host ==
  HostBatch(random_crop_letterbox, "u8", PLN3, BatchShapes, "each")
random_crop_letterbox_u8_pkd3_single_host ==
  HostSingle(random_crop_letterbox, "u8", PKD3)
random_crop_letterbox_u8_pkd3_batch_host ==
  HostBatch(random_crop_letterbox, "u8", PKD3, BatchShapes, "whole")
random_crop_letterbox_u8_pkd3_ROIS_host ==
  HostBatch(random_crop_letterbox, "u8", PKD3, BatchShapes, "one")
random_crop_letterbox_u8_pkd3_ROID_host ==
  HostBatch(random_crop_letterbox, "u8", PKD3, BatchShapes, "each")

random_crop_letterbox_functions == UNION {
  random_crop_letterbox_u8_pln1_single_gpu,
  random_crop_letterbox_u8_pln1_batch_gpu,
  random_crop_letterbox_u8_pln1_ROIS_gpu,
  random_crop_letterbox_u8_pln1_ROID_gpu,
  random_crop_letterbox_u8_pln3_single_gpu,
  random_crop_letterbox_u8_pln3_batch_gpu,
  random_crop_letterbox_u8_pln3_ROIS_gpu,
  random_crop_letterbox_u8_pln3_ROID_gpu,
  random_crop_letterbox_u8_pkd3_single_gpu,
  random_crop_letterbox_u8_pkd3_batch_gpu,
  random_crop_letterbox_u8_pkd3_ROIS_gpu,
  random_crop_letterbox_u8_pkd3_ROID_gpu,
  random_crop_letterbox_u8_pln1_single_host,
  random_crop_letterbox_u8_pln1_batch_host,
  random_crop_letterbox_u8_pln1_ROIS_host,
  random_crop_letterbox_u8_pln1_ROID_host,
  random_crop_letterbox_u8_pln3_single_host,
  random_crop_letterbox_u8_pln3_batch_host,
  random_crop_letterbox_u8_pln3_ROIS_host,
  random_crop_letterbox_u8_pln3_ROID_host,
  random_crop_letterbox_u8_pkd3_single_host,
  random_crop_letterbox_u8_pkd3_batch_host,
  random_crop_letterbox_u8_pkd3_ROIS_host,
  random_crop_letterbox_u8_pkd3_ROID_host}
-----------------------------------------------------------------------------
random_shadow ==
  Operation("random_shadow", {"dstPtr", "srcPtr"},
            <<P("x1", "uintArr0"), P("y1", "uintArr1"), P("x2", "uintArr2"),
              P("y2", "uintArr3"), P("numberOfShadows", "uintArr4"),
              P("maxSizeX", "uintArr5"), P("maxSizeY", "uintArr6")>>,
            [OCL |-> random_shadow_cl, HIP |-> random_shadow_hip],
            [OCL |-> random_shadow_cl_batch, HIP |-> random_shadow_hip_batch])

random_shadow_u8_pln1_gpu == GpuPlain(random_shadow, "u8", PLN1)
random_shadow_u8_pln1_batch_gpu ==
  GpuBatch(random_shadow, "u8", PLN1, BatchShapes, "none")
random_shadow_u8_pln3_gpu == GpuPlain(random_shadow, "u8", PLN3)
random_shadow_u8_pln3_batch_gpu ==
  GpuBatch(random_shadow, "u8", PLN3, BatchShapes, "none")
random_shadow_u8_pkd3_gpu == GpuPlain(random_shadow, "u8", PKD3)
random_shadow_u8_pkd3_batch_gpu ==
  GpuBatch(random_shadow, "u8", PKD3, BatchShapes, "none")
random_shadow_u8_pln1_host == HostPlain(random_shadow, "u8", PLN1)
random_shadow_u8_pln1_batch_host ==
  HostBatch(random_shadow, "u8", PLN1, BatchShapes, "none")
random_shadow_u8_pln3_host == HostPlain(random_shadow, "u8", PLN3)
random_shadow_u8_pln3_batch_host ==
  HostBatch(random_shadow, "u8", PLN3, BatchShapes, "none")
random_shadow_u8_pkd3_host == HostPlain(random_shadow, "u8", PKD3)
random_shadow_u8_pkd3_batch_host ==
  HostBatch(random_shadow, "u8", PKD3, BatchShapes, "none")

random_shadow_functions == UNION {
  random_shadow_u8_pln1_gpu, random_shadow_u8_pln1_batch_gpu,
  random_shadow_u8_pln3_gpu, random_shadow_u8_pln3_batch_gpu,
  random_shadow_u8_pkd3_gpu, random_shadow_u8_pkd3_batch_gpu,
  random_shadow_u8_pln1_host, random_shadow_u8_pln1_batch_host,
  random_shadow_u8_pln3_host, random_shadow_u8_pln3_batch_host,
  random_shadow_u8_pkd3_host, random_shadow_u8_pkd3_batch_host}
-----------------------------------------------------------------------------
EffectAugmentationsFunctions ==
  UNION {exposure_functions, blur_functions, rain_functions, fog_functions,
    histogram_balance_functions, noise_functions,
    random_crop_letterbox_functions, random_shadow_functions}
=============================================================================
