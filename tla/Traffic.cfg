SPECIFICATION FairSpec
CONSTANTS
  Providers <- MCProviders
  ModelOf <- MCModelOf
  HostOf <- MCHostOf
  RegionOf <- MCRegionOf
  AnyHost = "any"
  Whole = 4
  Catalogue = {}
  Names = {"default"}
  DefaultName = "default"
  Documents <- MCDocuments
  Requests = {r1}
  Upstream <- MCUpstream
  DefaultProvider = 0
  Settings = {TRUE, FALSE}
  Span = 1
  MinRequests = 2
  SampleFloor = 2
  MaxLoad = 1
  MaxFaults = 1
INVARIANTS TypeOK
PROPERTIES ExplorationEnds EveryCandidateIsTried RefusalsEnd
CHECK_DEADLOCK FALSE
