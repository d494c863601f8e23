CONSTANTS
  Images <- MCImages
  LimitSets <- MCLimits
  Regions <- MCRegions
  Sizes <- MCSizes
  Slips <- MCNoSlip
SPECIFICATION EvalSpec
INVARIANT CanonicalV2IsFixpoint
CHECK_DEADLOCK FALSE
