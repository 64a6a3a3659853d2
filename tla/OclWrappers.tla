---------------------------- MODULE OclWrappers ----------------------------
(***************************************************************************)
(* The OpenCL wrappers of modules/cl/ that the entry points call: which    *)
(* arrays of the handle each one passes to its kernel or computes its grid *)
(* from.  A wrapper for a batch loops or launches over GetBatchSize()      *)
(* images.  Those that read "srcSize" and neither "maxSrcSize" nor         *)
(* "srcBatchIndex" walk through the batch image by image.                  *)
(***************************************************************************)
EXTENDS EntryPointShapes
-----------------------------------------------------------------------------
(* cl/cl_advanced_aumentations.cpp                                         *)

non_linear_blend_cl_batch ==
  WholeBatch(Source \cup {"dstBatchIndex", "floatArr0", "roi"})
water_cl_batch ==
  WholeBatch(Source
             \cup {"dstBatchIndex", "floatArr0", "floatArr1", "floatArr2",
                   "floatArr3", "floatArr4", "floatArr5", "roi"})
erase_cl_batch == WholeBatch(Source \cup {"dstBatchIndex", "uintArr0"})
color_cast_cl_batch ==
  WholeBatch(Source
             \cup {"dstBatchIndex", "floatArr3", "roi", "ucharArr0",
                   "ucharArr1", "ucharArr2"})
lut_cl_batch == WholeBatch(Source \cup {"dstBatchIndex"})
crop_and_patch_cl_batch ==
  WholeBatch(Source \cup Destination
             \cup {"uintArr0", "uintArr1", "uintArr2", "uintArr3", "uintArr4",
                   "uintArr5", "uintArr6", "uintArr7"})
glitch_cl_batch ==
  WholeBatch(Source
             \cup {"dstBatchIndex", "roi", "uintArr0", "uintArr1", "uintArr2",
                   "uintArr3", "uintArr4", "uintArr5"})
-----------------------------------------------------------------------------
(* cl/cl_arithmetic_operations.cpp                                         *)

absolute_difference_cl == OneImage
absolute_difference_cl_batch == WholeBatch(Source \cup {"roi"})
accumulate_cl == OneImage
accumulate_cl_batch == WholeBatch(Source \cup {"roi"})
accumulate_weighted_cl == OneImage
accumulate_weighted_cl_batch == WholeBatch(Source \cup {"floatArr0", "roi"})
add_cl == OneImage
add_cl_batch == WholeBatch(Source \cup {"roi"})
subtract_cl == OneImage
subtract_cl_batch == WholeBatch(Source \cup {"roi"})
magnitude_cl == OneImage
magnitude_cl_batch == WholeBatch(Source \cup {"roi"})
multiply_cl == OneImage
multiply_cl_batch == WholeBatch(Source \cup {"roi"})
phase_cl == OneImage
phase_cl_batch == WholeBatch(Source \cup {"roi"})
accumulate_squared_cl == OneImage
accumulate_squared_cl_batch == WholeBatch(Source \cup {"roi"})
-----------------------------------------------------------------------------
(* cl/cl_color_model_conversions.cpp                                       *)

color_temperature_cl == OneImage
color_temperature_cl_batch == WholeBatch(Source \cup {"intArr0", "roi"})
vignette_cl == OneImage
vignette_cl_batch == WholeBatch(Source \cup {"floatArr0"})
channel_extract_cl == OneImage
channel_extract_cl_batch == WholeBatch(Source \cup {"uintArr0"})
channel_combine_cl == OneImage
channel_combine_cl_batch == WholeBatch(Source)
hueRGB_cl == OneImage
hueRGB_cl_batch == WholeBatch(Source \cup {"floatArr0", "roi"})
saturationRGB_cl == OneImage
saturationRGB_cl_batch == WholeBatch(Source \cup {"floatArr0", "roi"})
color_convert_cl == OneImage
color_convert_cl_batch == WholeBatch(Source \cup {"roi"})
look_up_table_cl == OneImage
look_up_table_cl_batch == WholeBatch(Source \cup {"roi"})
-----------------------------------------------------------------------------
(* cl/cl_computer_vision.cpp                                               *)

data_object_copy_cl == OneImage
data_object_copy_cl_batch == WholeBatch({"maxSrcSize"})
local_binary_pattern_cl == OneImage
local_binary_pattern_cl_batch == WholeBatch(Source \cup {"roi"})
gaussian_image_pyramid_cl == OneImage
gaussian_image_pyramid_cl_batch ==
  WholeBatch(Source \cup {"floatArr0", "uintArr1"})
convert_bit_depth_cl_batch == WholeBatch(Source)
laplacian_image_pyramid_cl == OneImage
laplacian_image_pyramid_cl_batch ==
  WholeBatch({"floatArr0", "srcSize", "uintArr1"})
canny_edge_detector_cl == OneImage
canny_edge_detector_cl_batch ==
  WholeBatch({"srcSize", "ucharArr0", "ucharArr1"})
harris_corner_detector_cl == OneImage
harris_corner_detector_cl_batch ==
  WholeBatch({"floatArr1", "floatArr3", "floatArr4", "srcSize", "uintArr0",
              "uintArr2", "uintArr5"})
fast_corner_detector_cl == OneImage
fast_corner_detector_cl_batch ==
  WholeBatch({"srcSize", "ucharArr1", "uintArr0", "uintArr2"})
remap_cl == OneImage
remap_cl_batch == WholeBatch({"srcSize"})
-----------------------------------------------------------------------------
(* cl/cl_filter_functions.cpp                                              *)

sobel_filter_cl == OneImage
sobel_filter_cl_batch == WholeBatch(Source \cup {"roi", "uintArr0"})
box_filter_cl == OneImage
box_filter_cl_batch == WholeBatch(Source \cup {"roi", "uintArr0"})
median_filter_cl_batch == WholeBatch(Source \cup {"roi", "uintArr0"})
non_max_suppression_cl == OneImage
non_max_suppression_cl_batch == WholeBatch(Source \cup {"roi", "uintArr0"})
bilateral_filter_cl == Ignoring(OneImage, {"kernelSize"})
bilateral_filter_cl_batch ==
  WholeBatch(Source \cup {"doubleArr1", "doubleArr2", "roi", "uintArr0"})
gaussian_filter_cl == OneImage
gaussian_filter_cl_batch ==
  WholeBatch(Source \cup {"floatArr0", "roi", "uintArr1"})
custom_convolution_cl == OneImage
custom_convolution_cl_batch == WholeBatch(Source \cup {"roi"})
-----------------------------------------------------------------------------
(* cl/cl_fused_functions.cpp                                               *)

color_twist_cl == OneImage
color_twist_cl_batch ==
  WholeBatch(Source
             \cup {"floatArr0", "floatArr1", "floatArr2", "floatArr3", "roi"})
color_twist_cl_batch_tensor ==
  WholeBatch(Source
             \cup {"dstBatchIndex", "floatArr0", "floatArr1", "floatArr2",
                   "floatArr3", "roi"})
crop_mirror_normalize_cl == Nothing
crop_mirror_normalize_cl_batch ==
  WholeBatch(Source \cup Destination
             \cup {"floatArr2", "floatArr3", "uintArr0", "uintArr1",
                   "uintArr4"})
crop_cl_batch ==
  WholeBatch(Source \cup Destination \cup {"uintArr0", "uintArr1"})
resize_crop_mirror_cl_batch ==
  WholeBatch(Source \cup Destination
             \cup {"uintArr0", "uintArr1", "uintArr2", "uintArr3", "uintArr4"})
-----------------------------------------------------------------------------
(* cl/cl_geometry_transforms.cpp                                           *)

fisheye_cl == OneImage
fisheye_cl_batch == WholeBatch(Source \cup {"roi"})
lens_correction_cl == OneImage
lens_correction_cl_batch ==
  WholeBatch(Source \cup {"floatArr0", "floatArr1", "roi"})
flip_cl == OneImage
flip_cl_batch == WholeBatch(Source \cup {"roi", "uintArr0"})
scale_cl_batch == WholeBatch(Source \cup Destination \cup {"floatArr0", "roi"})
random_crop_letterbox_cl_batch ==
  WholeBatch(Source \cup Destination
             \cup {"uintArr0", "uintArr1", "uintArr2", "uintArr3"})
resize_cl == OneImage
resize_cl_batch == WholeBatch(Source \cup Destination \cup {"roi"})
resize_cl_batch_tensor == WholeBatch(Source \cup Destination \cup {"roi"})
resize_crop_cl == OneImage
resize_crop_cl_batch ==
  WholeBatch(Source \cup Destination
             \cup {"uintArr0", "uintArr1", "uintArr2", "uintArr3"})
resize_crop_cl_batch_tensor ==
  WholeBatch(Source \cup Destination
             \cup {"uintArr0", "uintArr1", "uintArr2", "uintArr3"})
rotate_cl == OneImage
rotate_cl_batch ==
  WholeBatch(Source \cup Destination \cup {"floatArr0", "roi"})
rotate_cl_batch_tensor ==
  WholeBatch(Source \cup Destination \cup {"floatArr0", "roi"})
warp_affine_cl == OneImage
warp_affine_cl_batch == WholeBatch(Source \cup Destination \cup {"roi"})
warp_affine_cl_batch_tensor == WholeBatch(Source \cup Destination \cup {"roi"})
warp_perspective_cl == OneImage
warp_perspective_cl_batch == WholeBatch(Source \cup Destination \cup {"roi"})
-----------------------------------------------------------------------------
(* cl/cl_image_augmentations.cpp                                           *)

brightness_cl == OneImage
brightness_cl_batch ==
  WholeBatch(Source \cup {"floatArr0", "floatArr1", "roi"})
gamma_correction_cl == OneImage
gamma_correction_cl_batch == WholeBatch(Source \cup {"floatArr0", "roi"})
contrast_cl == OneImage
contrast_cl_batch == WholeBatch(Source \cup {"roi", "uintArr0", "uintArr1"})
blend_cl == OneImage
blend_cl_batch == WholeBatch(Source \cup {"floatArr0", "roi"})
pixelate_cl == OneImage
pixelate_cl_batch == WholeBatch(Source \cup {"roi"})
jitter_cl == OneImage
jitter_cl_batch == WholeBatch(Source \cup {"roi", "uintArr0"})
noise_cl == OneImage
noise_cl_batch == WholeBatch(Source \cup {"floatArr0", "hostSrcSize", "roi"})
snow_cl == OneImage
snow_cl_batch == WholeBatch(Source \cup {"floatArr0"})
exposure_cl == OneImage
exposure_cl_batch == WholeBatch(Source \cup {"floatArr0", "roi"})
rain_cl == OneImage
rain_cl_batch ==
  WholeBatch(Source \cup {"floatArr0", "floatArr3", "uintArr1", "uintArr2"})
fog_cl == OneImage
fog_cl_batch == WholeBatch(Source \cup {"floatArr0"})
random_shadow_cl == OneImage
random_shadow_cl_batch ==
  WholeBatch({"srcSize", "uintArr0", "uintArr1", "uintArr2", "uintArr3",
              "uintArr4", "uintArr5", "uintArr6"})
histogram_balance_cl == OneImage
histogram_balance_cl_batch == WholeBatch({"srcSize"})
-----------------------------------------------------------------------------
(* cl/cl_logical_operations.cpp                                            *)

bitwise_AND_cl == OneImage
bitwise_AND_cl_batch == WholeBatch(Source \cup {"roi"})
bitwise_NOT_cl == OneImage
bitwise_NOT_cl_batch == WholeBatch(Source \cup {"roi"})
exclusive_OR_cl == OneImage
exclusive_OR_cl_batch == WholeBatch(Source \cup {"roi"})
inclusive_OR_cl == OneImage
inclusive_OR_cl_batch == WholeBatch(Source \cup {"roi"})
-----------------------------------------------------------------------------
(* cl/cl_morphological_transforms.cpp                                      *)

dilate_cl == OneImage
dilate_cl_batch == WholeBatch(Source \cup {"roi", "uintArr0"})
erode_cl == OneImage
erode_cl_batch == WholeBatch(Source \cup {"roi", "uintArr0"})
-----------------------------------------------------------------------------
(* cl/cl_statistical_operations.cpp                                        *)

thresholding_cl == OneImage
thresholding_cl_batch ==
  WholeBatch(Source \cup {"roi", "ucharArr0", "ucharArr1"})
min_cl == OneImage
min_cl_batch == WholeBatch(Source \cup {"roi"})
max_cl == OneImage
max_cl_batch == WholeBatch(Source \cup {"roi"})
min_max_loc_cl == OneImage
integral_cl == OneImage
integral_cl_batch == WholeBatch({"srcSize"})
mean_stddev_cl == OneImage
histogram_cl == OneImage
=============================================================================
