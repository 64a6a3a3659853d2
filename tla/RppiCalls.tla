------------------------------ MODULE RppiCalls ------------------------------
(***************************************************************************)
(* The staging sequences of some GPU entry points and the arrays their     *)
(* kernels read, as ParamStaging takes them.  A slot stands for all the    *)
(* arrays one helper of rppi_validate.hpp fills: srcBatchIndex for         *)
(* srcBatchIndex and inc, floatArr for every floatArr[k] of the call.      *)
(***************************************************************************)
EXTENDS Naturals, Sequences

\* One helper: the slot it fills, the host arrays it reads besides the call's
\* arguments, and whether element i needs their elements 1..i or just i.
Stage(slot, from, prefix) ==
  [slot |-> slot, from |-> from, prefix |-> prefix]

copy_srcSize == Stage("srcSize", {}, FALSE)
copy_dstSize == Stage("dstSize", {}, FALSE)

\* With a RppiSize argument, or with the host copy of the sizes.
copy_srcMaxSize == Stage("maxSrcSize", {}, FALSE)
copy_srcMaxSize_own == Stage("maxSrcSize", {"srcSize"}, FALSE)
copy_dstMaxSize == Stage("maxDstSize", {}, FALSE)

\* An empty region means the whole image, whose size is read from csrcSize.
copy_roi == Stage("roi", {"srcSize"}, FALSE)

\* The offset of image i+1 is that of image i plus the padded size of image i.
get_srcBatchIndex == Stage("srcBatchIndex", {"maxSrcSize"}, TRUE)
get_dstBatchIndex == Stage("dstBatchIndex", {"maxDstSize"}, TRUE)

copy_param_float == Stage("floatArr", {}, FALSE)
copy_param_uint == Stage("uintArr", {}, FALSE)

SlotNames ==
  {"srcSize", "dstSize", "maxSrcSize", "maxDstSize", "roi",
   "srcBatchIndex", "dstBatchIndex", "floatArr", "uintArr"}

brightness_batchPD ==
  [staging |-> <<copy_srcSize, copy_srcMaxSize, copy_roi, get_srcBatchIndex, copy_param_float>>,
   reads |-> {"floatArr", "roi", "srcSize", "maxSrcSize", "srcBatchIndex"},
   grid |-> {"srcSize"}]

brightness_batchDS_ROID ==
  [brightness_batchPD EXCEPT !.staging =
     <<copy_srcSize, copy_srcMaxSize_own, copy_roi, get_srcBatchIndex, copy_param_float>>]

channel_extract_batchPD ==
  [staging |-> <<copy_srcSize, copy_srcMaxSize, get_srcBatchIndex, copy_param_uint>>,
   reads |-> {"uintArr", "srcSize", "maxSrcSize", "srcBatchIndex"},
   grid |-> {"srcSize"}]

channel_combine_cl_batch ==
  [staging |-> <<copy_srcSize, copy_srcMaxSize, get_srcBatchIndex>>,
   reads |-> {"srcSize", "maxSrcSize", "srcBatchIndex"},
   grid |-> {"srcSize"}]

\* The HIP version passes uintArr[0] between dstPtr and the sizes, so the
\* kernel's parameter "height" is an array this call does not stage.
channel_combine_hip_batch ==
  [channel_combine_cl_batch EXCEPT !.reads = @ \cup {"uintArr"}]

resize_helper ==
  [staging |-> <<copy_srcSize, copy_srcMaxSize, copy_dstSize, copy_dstMaxSize, copy_roi,
                 get_srcBatchIndex, get_dstBatchIndex>>,
   reads |-> {"srcSize", "dstSize", "maxSrcSize", "maxDstSize", "roi",
              "srcBatchIndex", "dstBatchIndex"},
   grid |-> {"dstSize"}]

Calls ==
  [brightness |-> brightness_batchPD,
   brightness_rois |-> brightness_batchDS_ROID,
   channel_extract |-> channel_extract_batchPD,
   channel_combine |-> channel_combine_cl_batch,
   channel_combine_hip |-> channel_combine_hip_batch,
   resize |-> resize_helper]
=============================================================================
