---------------------------- MODULE HipWrappers ----------------------------
(***************************************************************************)
(* The HIP wrappers of modules/hip/ that the entry points call, as         *)
(* OclWrappers does for OpenCL.  Several of them are empty: they return    *)
(* RPP_SUCCESS and start nothing.                                          *)
(***************************************************************************)
EXTENDS EntryPointShapes
-----------------------------------------------------------------------------
(* hip/hip_arithmetic_operations.cpp                                       *)

absolute_difference_hip == OneImage
absolute_difference_hip_batch == WholeBatch(Source \cup {"roi"})
accumulate_hip == OneImage
accumulate_hip_batch == WholeBatch(Source \cup {"roi"})
accumulate_weighted_hip == OneImage
accumulate_weighted_hip_batch == WholeBatch(Source \cup {"floatArr0", "roi"})
add_hip == OneImage
add_hip_batch == WholeBatch(Source \cup {"roi"})
subtract_hip == OneImage
subtract_hip_batch == WholeBatch(Source \cup {"roi"})
magnitude_hip == OneImage
magnitude_hip_batch == WholeBatch(Source \cup {"roi"})
multiply_hip == OneImage
multiply_hip_batch == WholeBatch(Source \cup {"roi"})
phase_hip == OneImage
phase_hip_batch == WholeBatch(Source \cup {"roi"})
accumulate_squared_hip == OneImage
accumulate_squared_hip_batch == WholeBatch(Source \cup {"roi"})
-----------------------------------------------------------------------------
(* hip/hip_color_model_conversions.cpp                                     *)

color_temperature_hip == OneImage
color_temperature_hip_batch == WholeBatch(Source \cup {"intArr0", "roi"})
vignette_hip == Nothing
vignette_hip_batch == WholeBatch(Source \cup {"floatArr0"})
channel_extract_hip == Nothing
channel_extract_hip_batch == WholeBatch(Source \cup {"uintArr0"})
channel_combine_hip == OneImage
channel_combine_hip_batch == WholeBatch(Source \cup {"uintArr0"})
hueRGB_hip == OneImage
hueRGB_hip_batch == WholeBatch(Source \cup {"floatArr0", "roi"})
saturationRGB_hip == OneImage
saturationRGB_hip_batch == WholeBatch(Source \cup {"floatArr0", "roi"})
look_up_table_hip == Nothing
look_up_table_hip_batch == WholeBatch(Source \cup {"roi"})
-----------------------------------------------------------------------------
(* hip/hip_computer_vision.cpp                                             *)

data_object_copy_hip == OneImage
data_object_copy_hip_batch == WholeBatch({"maxSrcSize"})
local_binary_pattern_hip == OneImage
local_binary_pattern_hip_batch == WholeBatch(Source \cup {"roi"})
gaussian_image_pyramid_hip == OneImage
gaussian_image_pyramid_hip_batch ==
  WholeBatch(Source \cup {"floatArr0", "uintArr1"})
laplacian_image_pyramid_hip == OneImage
laplacian_image_pyramid_hip_batch ==
  WholeBatch({"floatArr0", "srcSize", "uintArr1"})
canny_edge_detector_hip == OneImage
canny_edge_detector_hip_batch ==
  WholeBatch({"srcSize", "ucharArr0", "ucharArr1"})
harris_corner_detector_hip == OneImage
harris_corner_detector_hip_batch ==
  WholeBatch({"floatArr1", "floatArr3", "floatArr4", "srcSize", "uintArr0",
              "uintArr2", "uintArr5"})
fast_corner_detector_hip == OneImage
fast_corner_detector_hip_batch ==
  WholeBatch({"srcSize", "ucharArr1", "uintArr0", "uintArr2"})
remap_hip == Nothing
remap_hip_batch == Nothing
-----------------------------------------------------------------------------
(* hip/hip_declarations_inline.hpp                                         *)

resize_hip_batch_tensor == WholeBatch(Source \cup Destination \cup {"roi"})
resize_crop_hip_batch_tensor ==
  WholeBatch(Source \cup Destination
             \cup {"uintArr0", "uintArr1", "uintArr2", "uintArr3"})
rotate_hip_batch_tensor ==
  WholeBatch(Source \cup Destination \cup {"floatArr0", "roi"})
warp_affine_hip_batch_tensor ==
  WholeBatch(Source \cup Destination \cup {"roi"})
color_convert_hip_batch == WholeBatch(Source \cup {"roi"})
color_twist_hip_batch_tensor ==
  WholeBatch(Source
             \cup {"dstBatchIndex", "floatArr0", "floatArr1", "floatArr2",
                   "floatArr3", "roi"})
crop_hip_batch_tensor ==
  WholeBatch(Source \cup Destination \cup {"uintArr0", "uintArr1"})
crop_mirror_normalize_hip_batch_tensor ==
  WholeBatch(Source \cup Destination
             \cup {"floatArr2", "floatArr3", "uintArr0", "uintArr1",
                   "uintArr4"})
resize_crop_mirror_hip_batch_tensor ==
  WholeBatch(Source \cup Destination
             \cup {"uintArr0", "uintArr1", "uintArr2", "uintArr3", "uintArr4"})
non_linear_blend_hip_batch_tensor ==
  WholeBatch(Source \cup {"dstBatchIndex", "floatArr0", "roi"})
water_hip_batch_tensor ==
  WholeBatch(Source
             \cup {"dstBatchIndex", "floatArr0", "floatArr1", "floatArr2",
                   "floatArr3", "floatArr4", "floatArr5", "roi"})
erase_hip_batch_tensor == WholeBatch(Source \cup {"dstBatchIndex", "uintArr0"})
color_cast_hip_batch_tensor ==
  WholeBatch(Source
             \cup {"dstBatchIndex", "floatArr3", "roi", "ucharArr0",
                   "ucharArr1", "ucharArr2"})
lut_hip_batch_tensor == WholeBatch(Source \cup {"dstBatchIndex"})
crop_and_patch_hip_batch_tensor ==
  WholeBatch(Source \cup Destination
             \cup {"uintArr0", "uintArr1", "uintArr2", "uintArr3", "uintArr4",
                   "uintArr5", "uintArr6", "uintArr7"})
glitch_hip_batch_tensor ==
  WholeBatch(Source
             \cup {"dstBatchIndex", "roi", "uintArr0", "uintArr1", "uintArr2",
                   "uintArr3", "uintArr4", "uintArr5"})
-----------------------------------------------------------------------------
(* hip/hip_filter_functions.cpp                                            *)

sobel_filter_hip == OneImage
sobel_filter_hip_batch == WholeBatch(Source \cup {"roi", "uintArr0"})
box_filter_hip == OneImage
box_filter_hip_batch == WholeBatch(Source \cup {"roi", "uintArr0"})
median_filter_hip_batch == WholeBatch(Source \cup {"roi", "uintArr0"})
non_max_suppression_hip == OneImage
non_max_suppression_hip_batch == WholeBatch(Source \cup {"roi", "uintArr0"})
bilateral_filter_hip == Ignoring(OneImage, {"kernelSize"})
bilateral_filter_hip_batch ==
  WholeBatch(Source \cup {"doubleArr1", "doubleArr2", "roi", "uintArr0"})
gaussian_filter_hip == OneImage
gaussian_filter_hip_batch ==
  WholeBatch(Source \cup {"floatArr0", "roi", "uintArr1"})
custom_convolution_hip_batch == WholeBatch(Source \cup {"roi"})
-----------------------------------------------------------------------------
(* hip/hip_fused_functions.cpp                                             *)

color_twist_hip == Nothing
color_twist_hip_batch ==
  WholeBatch(Source
             \cup {"floatArr0", "floatArr1", "floatArr2", "floatArr3", "roi"})
crop_mirror_normalize_hip == Nothing
-----------------------------------------------------------------------------
(* hip/hip_geometry_transforms.cpp                                         *)

fisheye_hip == OneImage
fisheye_hip_batch == WholeBatch(Source \cup {"roi"})
lens_correction_hip == OneImage
lens_correction_hip_batch ==
  WholeBatch(Source \cup {"floatArr0", "floatArr1", "roi"})
flip_hip == OneImage
flip_hip_batch == WholeBatch(Source \cup {"roi", "uintArr0"})
scale_hip == OneImage
scale_hip_batch ==
  WholeBatch(Source \cup Destination \cup {"floatArr0", "roi"})
random_crop_letterbox_hip_batch ==
  WholeBatch(Source \cup Destination
             \cup {"uintArr0", "uintArr1", "uintArr2", "uintArr3"})
resize_hip == OneImage
resize_hip_batch == WholeBatch(Source \cup Destination \cup {"roi"})
resize_crop_hip == OneImage
resize_crop_hip_batch ==
  WholeBatch(Source \cup Destination
             \cup {"uintArr0", "uintArr1", "uintArr2", "uintArr3"})
rotate_hip == OneImage
rotate_hip_batch ==
  WholeBatch(Source \cup Destination \cup {"floatArr0", "roi"})
warp_affine_hip == OneImage
warp_affine_hip_batch == WholeBatch(Source \cup Destination \cup {"roi"})
warp_perspective_hip == OneImage
warp_perspective_hip_batch == WholeBatch(Source \cup Destination \cup {"roi"})
-----------------------------------------------------------------------------
(* hip/hip_imgaugmentation.cpp                                             *)

brightness_hip == OneImage
brightness_hip_batch ==
  WholeBatch(Source \cup {"floatArr0", "floatArr1", "roi"})
gamma_correction_hip == OneImage
gamma_correction_hip_batch == WholeBatch(Source \cup {"floatArr0", "roi"})
contrast_hip == OneImage
contrast_hip_batch == WholeBatch(Source \cup {"roi", "uintArr0", "uintArr1"})
blend_hip == OneImage
blend_hip_batch == WholeBatch(Source \cup {"floatArr0", "roi"})
pixelate_hip == Nothing
pixelate_hip_batch == WholeBatch(Source \cup {"roi"})
jitter_hip == OneImage
jitter_hip_batch == WholeBatch(Source \cup {"roi", "uintArr0"})
noise_hip == Nothing
noise_hip_batch == WholeBatch(Source \cup {"floatArr0", "roi"})
snow_hip == OneImage
snow_hip_batch == WholeBatch(Source \cup {"floatArr0"})
exposure_hip == OneImage
exposure_hip_batch == WholeBatch(Source \cup {"floatArr0", "roi"})
rain_hip == OneImage
rain_hip_batch ==
  WholeBatch(Source \cup {"floatArr0", "floatArr3", "uintArr1", "uintArr2"})
fog_hip == Nothing
fog_hip_batch == WholeBatch(Source \cup {"floatArr0"})
random_shadow_hip == OneImage
random_shadow_hip_batch ==
  WholeBatch({"srcSize", "uintArr0", "uintArr1", "uintArr2", "uintArr3",
              "uintArr4", "uintArr5", "uintArr6"})
histogram_balance_hip == OneImage
histogram_balance_hip_batch == WholeBatch({"srcSize"})
-----------------------------------------------------------------------------
(* hip/hip_logical_operations.cpp                                          *)

bitwise_AND_hip == OneImage
bitwise_AND_hip_batch == WholeBatch(Source \cup {"roi"})
bitwise_NOT_hip == OneImage
bitwise_NOT_hip_batch == WholeBatch(Source \cup {"roi"})
exclusive_OR_hip == OneImage
exclusive_OR_hip_batch == WholeBatch(Source \cup {"roi"})
inclusive_OR_hip == OneImage
inclusive_OR_hip_batch == WholeBatch(Source \cup {"roi"})
-----------------------------------------------------------------------------
(* hip/hip_morphological_transforms.cpp                                    *)

dilate_hip == Nothing
dilate_hip_batch == WholeBatch(Source \cup {"roi", "uintArr0"})
erode_hip == Nothing
erode_hip_batch == WholeBatch(Source \cup {"roi", "uintArr0"})
-----------------------------------------------------------------------------
(* hip/hip_statistical_operations.cpp                                      *)

thresholding_hip == OneImage
thresholding_hip_batch ==
  WholeBatch(Source \cup {"roi", "ucharArr0", "ucharArr1"})
min_hip == OneImage
min_hip_batch == WholeBatch(Source \cup {"roi"})
max_hip == OneImage
max_hip_batch == WholeBatch(Source \cup {"roi"})
min_max_loc_hip == OneImage
integral_hip == OneImage
integral_hip_batch == WholeBatch({"srcSize"})
mean_stddev_hip == OneImage
=============================================================================
