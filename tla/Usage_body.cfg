SPECIFICATION Spec
CONSTANTS
  Providers <- MCProviders
  ModelOf <- MCModelOf
  HostOf <- MCHostOf
  RegionOf <- MCRegionOf
  AnyHost = "any"
  Whole = 4
  Catalogue <- MCCatalogue
  Calls = {c1, c2}
  Fallback <- MCFallback
  FallbackModel = "x"
  Replies <- MCReplies
  FlushSettings = {1, 2}
  UsageCapacity = 1
  StrainCapacity = 1
  MaxTime = 1
  Reservations <- MCReservations
  Orders <- MCOrders
  Lookback = 1
INVARIANTS NetworkErrorFailsOver
SYMMETRY Calls2
CHECK_DEADLOCK FALSE
