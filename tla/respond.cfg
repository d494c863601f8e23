CONSTANTS
  IntegerOf <- MCIntegerOf
  DecimalOf <- MCDecimalOf
  Written <- MCWritten
  Masters <- MCMasters
  Replacements <- MCReplacements
  Limits <- MCLimits
  MaxSide = 11
  FirstRequests <- MCFirstRequests
  Spellings <- MCSpellings
  MaxExchanges = 2
  MaxVersion = 2
SPECIFICATION Spec
INVARIANTS
  RedirectReachesInfo
  CanonicalLinkIsSame
  NotModifiedStandsForOk
  AdvertisedIsServed
CHECK_DEADLOCK FALSE
