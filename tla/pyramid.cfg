CONSTANTS
  Masters <- MCMasters
  MaxResident = 40
SPECIFICATION Spec
INVARIANTS
  TypeOK
  RegionInsideLevel
  StitchedExactly
  WidthHasDetail
  AdvertisedTileIsNative
CHECK_DEADLOCK FALSE
