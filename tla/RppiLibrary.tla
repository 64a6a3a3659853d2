----------------------------- MODULE RppiLibrary -----------------------------
(***************************************************************************)
(* All entry points, file by file.  Those that rpp leaves to other parts   *)
(* (rppi_utilities.cpp, the tensor operations) are not among them.         *)
(***************************************************************************)
EXTENDS AccumulateOperations, AdvancedAugmentations, ArithmeticOperations,
        ColorModelConversions, ComputerVision, EffectAugmentations,
        FilterOperations, FusedFunctions, GeometryTransforms,
        ImageAugmentations, LogicalOperations, MorphologicalTransforms,
        StatisticalOperations, WarpTransforms

RppiFunctions == UNION {
  AccumulateOperationsFunctions, AdvancedAugmentationsFunctions,
  ArithmeticOperationsFunctions, ColorModelConversionsFunctions,
  ComputerVisionFunctions, EffectAugmentationsFunctions,
  FilterOperationsFunctions, FusedFunctionsFunctions,
  GeometryTransformsFunctions, ImageAugmentationsFunctions,
  LogicalOperationsFunctions, MorphologicalTransformsFunctions,
  StatisticalOperationsFunctions, WarpTransformsFunctions}
=============================================================================
