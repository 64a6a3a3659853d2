----------------------- MODULE ColorModelConversions ------------------------
(***************************************************************************)
(* The entry points of the color model conversions                         *)
(* (rppi_color_model_conversions.cpp):                                     *)
(* for each operation its record, its helpers, one definition for each     *)
(* family of functions that the source keeps together, and their union.    *)
(***************************************************************************)
EXTENDS EntryPointShapes, OclWrappers, HipWrappers
-----------------------------------------------------------------------------
vignette ==
  Operation("vignette", {"dstPtr", "srcPtr"},
            <<P("stdDev", "floatArr0")>>,
            [OCL |-> vignette_cl, HIP |-> vignette_hip],
            [OCL |-> vignette_cl_batch, HIP |-> vignette_hip_batch])

vignette_u8_pln1_single_gpu == GpuSingle(vignette, "u8", PLN1)
vignette_u8_pln1_batch_gpu ==
  GpuBatch(vignette, "u8", PLN1, BatchShapes, "whole")
vignette_u8_pln1_ROIS_gpu == GpuBatch(vignette, "u8", PLN1, BatchShapes, "one")
vignette_u8_pln1_ROID_gpu ==
  GpuBatch(vignette, "u8", PLN1, BatchShapes, "each")
vignette_u8_pln3_single_gpu == GpuSingle(vignette, "u8", PLN3)
vignette_u8_pln3_batch_gpu ==
  GpuBatch(vignette, "u8", PLN3, BatchShapes, "whole")
vignette_u8_pln3_ROIS_gpu == GpuBatch(vignette, "u8", PLN3, BatchShapes, "one")
vignette_u8_pln3_ROID_gpu ==
  GpuBatch(vignette, "u8", PLN3, BatchShapes, "each")
vignette_u8_pkd3_single_gpu == GpuSingle(vignette, "u8", PKD3)
vignette_u8_pkd3_batch_gpu ==
  GpuBatch(vignette, "u8", PKD3, BatchShapes, "whole")
vignette_u8_pkd3_ROIS_gpu == GpuBatch(vignette, "u8", PKD3, BatchShapes, "one")
vignette_u8_pkd3_ROID_gpu ==
  GpuBatch(vignette, "u8", PKD3, BatchShapes, "each")
vignette_u8_pln1_single_host == HostSingle(vignette, "u8", PLN1)
vignette_u8_pln1_batch_host ==
  HostBatch(vignette, "u8", PLN1, BatchShapes, "whole")
vignette_u8_pln1_ROIS_host ==
  HostBatch(vignette, "u8", PLN1, BatchShapes, "one")
vignette_u8_pln1_ROID_host ==
  HostBatch(vignette, "u8", PLN1, BatchShapes, "each")
vignette_u8_pln3_single_host == HostSingle(vignette, "u8", PLN3)
vignette_u8_pln3_batch_host ==
  HostBatch(vignette, "u8", PLN3, BatchShapes, "whole")
vignette_u8_pln3_ROIS_host ==
  HostBatch(vignette, "u8", PLN3, BatchShapes, "one")
vignette_u8_pln3_ROID_host ==
  HostBatch(vignette, "u8", PLN3, BatchShapes, "each")
vignette_u8_pkd3_single_host == HostSingle(vignette, "u8", PKD3)
vignette_u8_pkd3_batch_host ==
  HostBatch(vignette, "u8", PKD3, BatchShapes, "whole")
vignette_u8_pkd3_ROIS_host ==
  HostBatch(vignette, "u8", PKD3, BatchShapes, "one")
vignette_u8_pkd3_ROID_host ==
  HostBatch(vignette, "u8", PKD3, BatchShapes, "each")

vignette_functions == UNION {
  vignette_u8_pln1_single_gpu, vignette_u8_pln1_batch_gpu,
  vignette_u8_pln1_ROIS_gpu, vignette_u8_pln1_ROID_gpu,
  vignette_u8_pln3_single_gpu, vignette_u8_pln3_batch_gpu,
  vignette_u8_pln3_ROIS_gpu, vignette_u8_pln3_ROID_gpu,
  vignette_u8_pkd3_single_gpu, vignette_u8_pkd3_batch_gpu,
  vignette_u8_pkd3_ROIS_gpu, vignette_u8_pkd3_ROID_gpu,
  vignette_u8_pln1_single_host, vignette_u8_pln1_batch_host,
  vignette_u8_pln1_ROIS_host, vignette_u8_pln1_ROID_host,
  vignette_u8_pln3_single_host, vignette_u8_pln3_batch_host,
  vignette_u8_pln3_ROIS_host, vignette_u8_pln3_ROID_host,
  vignette_u8_pkd3_single_host, vignette_u8_pkd3_batch_host,
  vignette_u8_pkd3_ROIS_host, vignette_u8_pkd3_ROID_host}
-----------------------------------------------------------------------------
color_temperature ==
  Operation("color_temperature", {"dstPtr", "srcPtr"},
            <<P("adjustmentValue", "intArr0")>>,
            [OCL |-> color_temperature_cl, HIP |-> color_temperature_hip],
            [OCL |-> color_temperature_cl_batch,
             HIP |-> color_temperature_hip_batch])

color_temperature_u8_pln1_single_gpu ==
  GpuSingle(color_temperature, "u8", PLN1)
color_temperature_u8_pln1_batch_gpu ==
  GpuBatch(color_temperature, "u8", PLN1, BatchShapes, "whole")
color_temperature_u8_pln1_ROIS_gpu ==
  GpuBatch(color_temperature, "u8", PLN1, BatchShapes, "one")
color_temperature_u8_pln1_ROID_gpu ==
  GpuBatch(color_temperature, "u8", PLN1, BatchShapes, "each")
color_temperature_u8_pln3_single_gpu ==
  GpuSingle(color_temperature, "u8", PLN3)
color_temperature_u8_pln3_batch_gpu ==
  GpuBatch(color_temperature, "u8", PLN3, BatchShapes, "whole")
color_temperature_u8_pln3_ROIS_gpu ==
  GpuBatch(color_temperature, "u8", PLN3, BatchShapes, "one")
color_temperature_u8_pln3_ROID_gpu ==
  GpuBatch(color_temperature, "u8", PLN3, BatchShapes, "each")
color_temperature_u8_pkd3_single_gpu ==
  GpuSingle(color_temperature, "u8", PKD3)
color_temperature_u8_pkd3_batch_gpu ==
  GpuBatch(color_temperature, "u8", PKD3, BatchShapes, "whole")
color_temperature_u8_pkd3_ROIS_gpu ==
  GpuBatch(color_temperature, "u8", PKD3, BatchShapes, "one")
color_temperature_u8_pkd3_ROID_gpu ==
  GpuBatch(color_temperature, "u8", PKD3, BatchShapes, "each")
color_temperature_u8_pln1_single_host ==
  HostSingle(color_temperature, "u8", PLN1)
color_temperature_u8_pln1_batch_host ==
  HostBatch(color_temperature, "u8", PLN1, BatchShapes, "whole")
color_temperature_u8_pln1_ROIS_host ==
  HostBatch(color_temperature, "u8", PLN1, BatchShapes, "one")
color_temperature_u8_pln1_ROID_host ==
  HostBatch(color_temperature, "u8", PLN1, BatchShapes, "each")
color_temperature_u8_pln3_single_host ==
  HostSingle(color_temperature, "u8", PLN3)
color_temperature_u8_pln3_batch_host ==
  HostBatch(color_temperature, "u8", PLN3, BatchShapes, "whole")
color_temperature_u8_pln3_ROIS_host ==
  HostBatch(color_temperature, "u8", PLN3, BatchShapes, "one")
color_temperature_u8_pln3_ROID_host ==
  HostBatch(color_temperature, "u8", PLN3, BatchShapes, "each")
color_temperature_u8_pkd3_single_host ==
  HostSingle(color_temperature, "u8", PKD3)
color_temperature_u8_pkd3_batch_host ==
  HostBatch(color_temperature, "u8", PKD3, BatchShapes, "whole")
color_temperature_u8_pkd3_ROIS_host ==
  HostBatch(color_temperature, "u8", PKD3, BatchShapes, "one")
color_temperature_u8_pkd3_ROID_host ==
  HostBatch(color_temperature, "u8", PKD3, BatchShapes, "each")

color_temperature_functions == UNION {
  color_temperature_u8_pln1_single_gpu, color_temperature_u8_pln1_batch_gpu,
  color_temperature_u8_pln1_ROIS_gpu, color_temperature_u8_pln1_ROID_gpu,
  color_temperature_u8_pln3_single_gpu, color_temperature_u8_pln3_batch_gpu,
  color_temperature_u8_pln3_ROIS_gpu, color_temperature_u8_pln3_ROID_gpu,
  color_temperature_u8_pkd3_single_gpu, color_temperature_u8_pkd3_batch_gpu,
  color_temperature_u8_pkd3_ROIS_gpu, color_temperature_u8_pkd3_ROID_gpu,
  color_temperature_u8_pln1_single_host, color_temperature_u8_pln1_batch_host,
  color_temperature_u8_pln1_ROIS_host, color_temperature_u8_pln1_ROID_host,
  color_temperature_u8_pln3_single_host, color_temperature_u8_pln3_batch_host,
  color_temperature_u8_pln3_ROIS_host, color_temperature_u8_pln3_ROID_host,
  color_temperature_u8_pkd3_single_host, color_temperature_u8_pkd3_batch_host,
  color_temperature_u8_pkd3_ROIS_host, color_temperature_u8_pkd3_ROID_host}
-----------------------------------------------------------------------------
channel_extract ==
  Operation("channel_extract", {"dstPtr", "srcPtr"},
            <<P("extractChannelNumber", "uintArr0")>>,
            [OCL |-> channel_extract_cl, HIP |-> channel_extract_hip],
            [OCL |-> channel_extract_cl_batch,
             HIP |-> channel_extract_hip_batch])

channel_extract_u8_pln1_gpu == GpuPlain(channel_extract, "u8", PLN1)
channel_extract_u8_pln1_batch_gpu ==
  GpuBatch(channel_extract, "u8", PLN1, BatchShapes, "none")
channel_extract_u8_pln3_gpu == GpuPlain(channel_extract, "u8", PLN3)
channel_extract_u8_pln3_batch_gpu ==
  GpuBatch(channel_extract, "u8", PLN3, BatchShapes, "none")
channel_extract_u8_pkd3_gpu == GpuPlain(channel_extract, "u8", PKD3)
channel_extract_u8_pkd3_batch_gpu ==
  GpuBatch(channel_extract, "u8", PKD3, BatchShapes, "none")
channel_extract_u8_pln1_host == HostPlain(channel_extract, "u8", PLN1)
channel_extract_u8_pln1_batch_host ==
  HostBatch(channel_extract, "u8", PLN1, BatchShapes, "none")
channel_extract_u8_pln3_host == HostPlain(channel_extract, "u8", PLN3)
channel_extract_u8_pln3_batch_host ==
  HostBatch(channel_extract, "u8", PLN3, BatchShapes, "none")
channel_extract_u8_pkd3_host == HostPlain(channel_extract, "u8", PKD3)
channel_extract_u8_pkd3_batch_host ==
  HostBatch(channel_extract, "u8", PKD3, BatchShapes, "none")

channel_extract_functions == UNION {
  channel_extract_u8_pln1_gpu, channel_extract_u8_pln1_batch_gpu,
  channel_extract_u8_pln3_gpu, channel_extract_u8_pln3_batch_gpu,
  channel_extract_u8_pkd3_gpu, channel_extract_u8_pkd3_batch_gpu,
  channel_extract_u8_pln1_host, channel_extract_u8_pln1_batch_host,
  channel_extract_u8_pln3_host, channel_extract_u8_pln3_batch_host,
  channel_extract_u8_pkd3_host, channel_extract_u8_pkd3_batch_host}
-----------------------------------------------------------------------------
channel_combine ==
  Operation("channel_combine", {"dstPtr", "srcPtr1", "srcPtr2", "srcPtr3"},
            <<>>,
            [OCL |-> channel_combine_cl, HIP |-> channel_combine_hip],
            [OCL |-> channel_combine_cl_batch,
             HIP |-> channel_combine_hip_batch])

channel_combine_u8_pln1_gpu == GpuPlain(channel_combine, "u8", PLN1)
channel_combine_u8_pln1_batch_gpu ==
  GpuBatch(channel_combine, "u8", PLN1, BatchShapes, "none")
channel_combine_u8_pln3_gpu == GpuPlain(channel_combine, "u8", PLN3)
channel_combine_u8_pln3_batch_gpu ==
  GpuBatch(channel_combine, "u8", PLN3, BatchShapes, "none")
channel_combine_u8_pkd3_gpu == GpuPlain(channel_combine, "u8", PKD3)
channel_combine_u8_pkd3_batch_gpu ==
  GpuBatch(channel_combine, "u8", PKD3, BatchShapes, "none")
channel_combine_u8_pln1_host == HostPlain(channel_combine, "u8", PLN1)
channel_combine_u8_pln1_batch_host ==
  HostBatch(channel_combine, "u8", PLN1, BatchShapes, "none")
channel_combine_u8_pln3_host == HostPlain(channel_combine, "u8", PLN3)
channel_combine_u8_pln3_batch_host ==
  HostBatch(channel_combine, "u8", PLN3, BatchShapes, "none")
channel_combine_u8_pkd3_host == HostPlain(channel_combine, "u8", PKD3)
channel_combine_u8_pkd3_batch_host ==
  HostBatch(channel_combine, "u8", PKD3, BatchShapes, "none")

channel_combine_functions == UNION {
  channel_combine_u8_pln1_gpu, channel_combine_u8_pln1_batch_gpu,
  channel_combine_u8_pln3_gpu, channel_combine_u8_pln3_batch_gpu,
  channel_combine_u8_pkd3_gpu, channel_combine_u8_pkd3_batch_gpu,
  channel_combine_u8_pln1_host, channel_combine_u8_pln1_batch_host,
  channel_combine_u8_pln3_host, channel_combine_u8_pln3_batch_host,
  channel_combine_u8_pkd3_host, channel_combine_u8_pkd3_batch_host}
-----------------------------------------------------------------------------
hueRGB ==
  Operation("hueRGB", {"dstPtr", "srcPtr"},
            <<P("hueShift", "floatArr0")>>,
            [OCL |-> hueRGB_cl, HIP |-> hueRGB_hip],
            [OCL |-> hueRGB_cl_batch, HIP |-> hueRGB_hip_batch])

hueRGB_u8_pln1_single_gpu == GpuSingle(hueRGB, "u8", PLN1)
hueRGB_u8_pln1_batch_gpu == GpuBatch(hueRGB, "u8", PLN1, BatchShapes, "whole")
hueRGB_u8_pln1_ROIS_gpu == GpuBatch(hueRGB, "u8", PLN1, BatchShapes, "one")
hueRGB_u8_pln1_ROID_gpu == GpuBatch(hueRGB, "u8", PLN1, BatchShapes, "each")
hueRGB_u8_pln3_single_gpu == GpuSingle(hueRGB, "u8", PLN3)
hueRGB_u8_pln3_batch_gpu == GpuBatch(hueRGB, "u8", PLN3, BatchShapes, "whole")
hueRGB_u8_pln3_ROIS_gpu == GpuBatch(hueRGB, "u8", PLN3, BatchShapes, "one")
hueRGB_u8_pln3_ROID_gpu == GpuBatch(hueRGB, "u8", PLN3, BatchShapes, "each")
hueRGB_u8_pkd3_single_gpu == GpuSingle(hueRGB, "u8", PKD3)
hueRGB_u8_pkd3_batch_gpu == GpuBatch(hueRGB, "u8", PKD3, BatchShapes, "whole")
hueRGB_u8_pkd3_ROIS_gpu == GpuBatch(hueRGB, "u8", PKD3, BatchShapes, "one")
hueRGB_u8_pkd3_ROID_gpu == GpuBatch(hueRGB, "u8", PKD3, BatchShapes, "each")
hueRGB_u8_pln1_single_host == HostSingle(hueRGB, "u8", PLN1)
hueRGB_u8_pln1_batch_host ==
  HostBatch(hueRGB, "u8", PLN1, BatchShapes, "whole")
hueRGB_u8_pln1_ROIS_host == HostBatch(hueRGB, "u8", PLN1, BatchShapes, "one")
hueRGB_u8_pln1_ROID_host == HostBatch(hueRGB, "u8", PLN1, BatchShapes, "each")
hueRGB_u8_pln3_single_host == HostSingle(hueRGB, "u8", PLN3)
hueRGB_u8_pln3_batch_host ==
  HostBatch(hueRGB, "u8", PLN3, BatchShapes, "whole")
hueRGB_u8_pln3_ROIS_host == HostBatch(hueRGB, "u8", PLN3, BatchShapes, "one")
hueRGB_u8_pln3_ROID_host == HostBatch(hueRGB, "u8", PLN3, BatchShapes, "each")
hueRGB_u8_pkd3_single_host == HostSingle(hueRGB, "u8", PKD3)
hueRGB_u8_pkd3_batch_host ==
  HostBatch(hueRGB, "u8", PKD3, BatchShapes, "whole")
hueRGB_u8_pkd3_ROIS_host == HostBatch(hueRGB, "u8", PKD3, BatchShapes, "one")
hueRGB_u8_pkd3_ROID_host == HostBatch(hueRGB, "u8", PKD3, BatchShapes, "each")

hueRGB_functions == UNION {
  hueRGB_u8_pln1_single_gpu, hueRGB_u8_pln1_batch_gpu, hueRGB_u8_pln1_ROIS_gpu,
  hueRGB_u8_pln1_ROID_gpu, hueRGB_u8_pln3_single_gpu, hueRGB_u8_pln3_batch_gpu,
  hueRGB_u8_pln3_ROIS_gpu, hueRGB_u8_pln3_ROID_gpu, hueRGB_u8_pkd3_single_gpu,
  hueRGB_u8_pkd3_batch_gpu, hueRGB_u8_pkd3_ROIS_gpu, hueRGB_u8_pkd3_ROID_gpu,
  hueRGB_u8_pln1_single_host, hueRGB_u8_pln1_batch_host,
  hueRGB_u8_pln1_ROIS_host, hueRGB_u8_pln1_ROID_host,
  hueRGB_u8_pln3_single_host, hueRGB_u8_pln3_batch_host,
  hueRGB_u8_pln3_ROIS_host, hueRGB_u8_pln3_ROID_host,
  hueRGB_u8_pkd3_single_host, hueRGB_u8_pkd3_batch_host,
  hueRGB_u8_pkd3_ROIS_host, hueRGB_u8_pkd3_ROID_host}
-----------------------------------------------------------------------------
saturationRGB ==
  Operation("saturationRGB", {"dstPtr", "srcPtr"},
            <<P("saturationFactor", "floatArr0")>>,
            [OCL |-> saturationRGB_cl, HIP |-> saturationRGB_hip],
            [OCL |-> saturationRGB_cl_batch, HIP |-> saturationRGB_hip_batch])

saturationRGB_u8_pln1_single_gpu == GpuSingle(saturationRGB, "u8", PLN1)
saturationRGB_u8_pln1_batch_gpu ==
  GpuBatch(saturationRGB, "u8", PLN1, BatchShapes, "whole")
saturationRGB_u8_pln1_ROIS_gpu ==
  GpuBatch(saturationRGB, "u8", PLN1, BatchShapes, "one")
saturationRGB_u8_pln1_ROID_gpu ==
  GpuBatch(saturationRGB, "u8", PLN1, BatchShapes, "each")
saturationRGB_u8_pln3_single_gpu == GpuSingle(saturationRGB, "u8", PLN3)
saturationRGB_u8_pln3_batch_gpu ==
  GpuBatch(saturationRGB, "u8", PLN3, BatchShapes, "whole")
saturationRGB_u8_pln3_ROIS_gpu ==
  GpuBatch(saturationRGB, "u8", PLN3, BatchShapes, "one")
saturationRGB_u8_pln3_ROID_gpu ==
  GpuBatch(saturationRGB, "u8", PLN3, BatchShapes, "each")
saturationRGB_u8_pkd3_single_gpu == GpuSingle(saturationRGB, "u8", PKD3)
saturationRGB_u8_pkd3_batch_gpu ==
  GpuBatch(saturationRGB, "u8", PKD3, BatchShapes, "whole")
saturationRGB_u8_pkd3_ROIS_gpu ==
  GpuBatch(saturationRGB, "u8", PKD3, BatchShapes, "one")
saturationRGB_u8_pkd3_ROID_gpu ==
  GpuBatch(saturationRGB, "u8", PKD3, BatchShapes, "each")
saturationRGB_u8_pln1_single_host == HostSingle(saturationRGB, "u8", PLN1)
saturationRGB_u8_pln1_batch_host ==
  HostBatch(saturationRGB, "u8", PLN1, BatchShapes, "whole")
saturationRGB_u8_pln1_ROIS_host ==
  HostBatch(saturationRGB, "u8", PLN1, BatchShapes, "one")
saturationRGB_u8_pln1_ROID_host ==
  HostBatch(saturationRGB, "u8", PLN1, BatchShapes, "each")
saturationRGB_u8_pln3_single_host == HostSingle(saturationRGB, "u8", PLN3)
saturationRGB_u8_pln3_batch_host ==
  HostBatch(saturationRGB, "u8", PLN3, BatchShapes, "whole")
saturationRGB_u8_pln3_ROIS_host ==
  HostBatch(saturationRGB, "u8", PLN3, BatchShapes, "one")
saturationRGB_u8_pln3_ROID_host ==
  HostBatch(saturationRGB, "u8", PLN3, BatchShapes, "each")
saturationRGB_u8_pkd3_single_host == HostSingle(saturationRGB, "u8", PKD3)
saturationRGB_u8_pkd3_batch_host ==
  HostBatch(saturationRGB, "u8", PKD3, BatchShapes, "whole")
saturationRGB_u8_pkd3_ROIS_host ==
  HostBatch(saturationRGB, "u8", PKD3, BatchShapes, "one")
saturationRGB_u8_pkd3_ROID_host ==
  HostBatch(saturationRGB, "u8", PKD3, BatchShapes, "each")

saturationRGB_functions == UNION {
  saturationRGB_u8_pln1_single_gpu, saturationRGB_u8_pln1_batch_gpu,
  saturationRGB_u8_pln1_ROIS_gpu, saturationRGB_u8_pln1_ROID_gpu,
  saturationRGB_u8_pln3_single_gpu, saturationRGB_u8_pln3_batch_gpu,
  saturationRGB_u8_pln3_ROIS_gpu, saturationRGB_u8_pln3_ROID_gpu,
  saturationRGB_u8_pkd3_single_gpu, saturationRGB_u8_pkd3_batch_gpu,
  saturationRGB_u8_pkd3_ROIS_gpu, saturationRGB_u8_pkd3_ROID_gpu,
  saturationRGB_u8_pln1_single_host, saturationRGB_u8_pln1_batch_host,
  saturationRGB_u8_pln1_ROIS_host, saturationRGB_u8_pln1_ROID_host,
  saturationRGB_u8_pln3_single_host, saturationRGB_u8_pln3_batch_host,
  saturationRGB_u8_pln3_ROIS_host, saturationRGB_u8_pln3_ROID_host,
  saturationRGB_u8_pkd3_single_host, saturationRGB_u8_pkd3_batch_host,
  saturationRGB_u8_pkd3_ROIS_host, saturationRGB_u8_pkd3_ROID_host}
-----------------------------------------------------------------------------
look_up_table ==
  HostIgnoring({"roiPoints"},
    Operation("look_up_table", {"dstPtr", "lutPtr", "srcPtr"},
              <<>>,
              [OCL |-> look_up_table_cl, HIP |-> look_up_table_hip],
              [OCL |-> look_up_table_cl_batch,
               HIP |-> look_up_table_hip_batch]))

look_up_table_u8_pln1_single_gpu == GpuSingle(look_up_table, "u8", PLN1)
look_up_table_u8_pln1_batch_gpu ==
  GpuBatch(look_up_table, "u8", PLN1, BatchShapes, "whole")
look_up_table_u8_pln1_ROIS_gpu ==
  GpuBatch(look_up_table, "u8", PLN1, BatchShapes, "one")
look_up_table_u8_pln1_ROID_gpu ==
  GpuBatch(look_up_table, "u8", PLN1, BatchShapes, "each")
look_up_table_u8_pln3_single_gpu == GpuSingle(look_up_table, "u8", PLN3)
look_up_table_u8_pln3_batch_gpu ==
  GpuBatch(look_up_table, "u8", PLN3, BatchShapes, "whole")
look_up_table_u8_pln3_ROIS_gpu ==
  GpuBatch(look_up_table, "u8", PLN3, BatchShapes, "one")
look_up_table_u8_pln3_ROID_gpu ==
  GpuBatch(look_up_table, "u8", PLN3, BatchShapes, "each")
look_up_table_u8_pkd3_single_gpu == GpuSingle(look_up_table, "u8", PKD3)
look_up_table_u8_pkd3_batch_gpu ==
  GpuBatch(look_up_table, "u8", PKD3, BatchShapes, "whole")
look_up_table_u8_pkd3_ROIS_gpu ==
  GpuBatch(look_up_table, "u8", PKD3, BatchShapes, "one")
look_up_table_u8_pkd3_ROID_gpu ==
  GpuBatch(look_up_table, "u8", PKD3, BatchShapes, "each")
look_up_table_u8_pln1_single_host == HostSingle(look_up_table, "u8", PLN1)
look_up_table_u8_pln1_batch_host ==
  HostBatch(look_up_table, "u8", PLN1, BatchShapes, "whole")
look_up_table_u8_pln1_ROIS_host ==
  HostBatch(look_up_table, "u8", PLN1, BatchShapes, "one")
look_up_table_u8_pln1_ROID_host ==
  HostBatch(look_up_table, "u8", PLN1, BatchShapes, "each")
look_up_table_u8_pln3_single_host == HostSingle(look_up_table, "u8", PLN3)
look_up_table_u8_pln3_batch_host ==
  HostBatch(look_up_table, "u8", PLN3, BatchShapes, "whole")
look_up_table_u8_pln3_ROIS_host ==
  HostBatch(look_up_table, "u8", PLN3, BatchShapes, "one")
look_up_table_u8_pln3_ROID_host ==
  HostBatch(look_up_table, "u8", PLN3, BatchShapes, "each")
look_up_table_u8_pkd3_single_host == HostSingle(look_up_table, "u8", PKD3)
look_up_table_u8_pkd3_batch_host ==
  HostBatch(look_up_table, "u8", PKD3, BatchShapes, "whole")
look_up_table_u8_pkd3_ROIS_host ==
  HostBatch(look_up_table, "u8", PKD3, BatchShapes, "one")
look_up_table_u8_pkd3_ROID_host ==
  HostBatch(look_up_table, "u8", PKD3, BatchShapes, "each")

look_up_table_functions == UNION {
  look_up_table_u8_pln1_single_gpu, look_up_table_u8_pln1_batch_gpu,
  look_up_table_u8_pln1_ROIS_gpu, look_up_table_u8_pln1_ROID_gpu,
  look_up_table_u8_pln3_single_gpu, look_up_table_u8_pln3_batch_gpu,
  look_up_table_u8_pln3_ROIS_gpu, look_up_table_u8_pln3_ROID_gpu,
  look_up_table_u8_pkd3_single_gpu, look_up_table_u8_pkd3_batch_gpu,
  look_up_table_u8_pkd3_ROIS_gpu, look_up_table_u8_pkd3_ROID_gpu,
  look_up_table_u8_pln1_single_host, look_up_table_u8_pln1_batch_host,
  look_up_table_u8_pln1_ROIS_host, look_up_table_u8_pln1_ROID_host,
  look_up_table_u8_pln3_single_host, look_up_table_u8_pln3_batch_host,
  look_up_table_u8_pln3_ROIS_host, look_up_table_u8_pln3_ROID_host,
  look_up_table_u8_pkd3_single_host, look_up_table_u8_pkd3_batch_host,
  look_up_table_u8_pkd3_ROIS_host, look_up_table_u8_pkd3_ROID_host}
-----------------------------------------------------------------------------
color_convert ==
  ThreePlanes(
    Operation("color_convert", {"convert_mode", "dstPtr", "srcPtr"},
              <<>>,
              [OCL |-> color_convert_cl, HIP |-> Nothing],
              [OCL |-> color_convert_cl_batch, HIP |-> Nothing]))

color_convert_u8_pln3_gpu == GpuPlain(color_convert, "u8", PLN3)
color_convert_u8_pln3_batch_gpu ==
  GpuBatch(color_convert, "u8", PLN3, {"DS", "SS"}, "whole")
  \cup Calling([OCL |-> color_convert_cl_batch,
                HIP |-> color_convert_hip_batch],
              GpuBatch(color_convert, "u8", PLN3, {"PS"}, "whole"))
color_convert_u8_pkd3_gpu == GpuPlain(color_convert, "u8", PKD3)
color_convert_u8_pkd3_batch_gpu ==
  GpuBatch(color_convert, "u8", PKD3, {"DS", "SS"}, "whole")
  \cup Calling([OCL |-> color_convert_cl_batch,
                HIP |-> color_convert_hip_batch],
              GpuBatch(color_convert, "u8", PKD3, {"PS"}, "whole"))
color_convert_u8_pln3_host == HostPlain(color_convert, "u8", PLN3)
color_convert_u8_pln3_batch_host ==
  HostBatch(color_convert, "u8", PLN3, {"DS", "PS", "SS"}, "none")
color_convert_u8_pkd3_host == HostPlain(color_convert, "u8", PKD3)
color_convert_u8_pkd3_batch_host ==
  HostBatch(color_convert, "u8", PKD3, {"DS", "PS", "SS"}, "none")

color_convert_functions == UNION {
  color_convert_u8_pln3_gpu, color_convert_u8_pln3_batch_gpu,
  color_convert_u8_pkd3_gpu, color_convert_u8_pkd3_batch_gpu,
  color_convert_u8_pln3_host, color_convert_u8_pln3_batch_host,
  color_convert_u8_pkd3_host, color_convert_u8_pkd3_batch_host}
-----------------------------------------------------------------------------
ColorModelConversionsFunctions ==
  UNION {vignette_functions, color_temperature_functions,
  channel_extract_functions, channel_combine_functions, hueRGB_functions,
  saturationRGB_functions, look_up_table_functions, color_convert_functions}
=============================================================================
