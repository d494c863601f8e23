CONSTANTS
  Images <- MCImages
  LimitSets <- MCLimits
  Regions <- MCRegions
  Sizes <- MCSizes
  Slips <- MCSlips
SPECIFICATION EvalSpec
INVARIANTS
  CropInsideImage
  AskedSizeOrRefused
  MaxIsLargest
  MaxRefusedOnlyWhenThin
  CanonicalIsFixpoint
CHECK_DEADLOCK FALSE
