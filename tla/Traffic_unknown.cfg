SPECIFICATION Spec
CONSTANTS
  Providers <- MCProviders
  ModelOf <- MCModelOf
  HostOf <- MCHostOf
  RegionOf <- MCRegionOf
  AnyHost = "any"
  Whole = 4
  Catalogue = {}
  Names = {"default", "other"}
  DefaultName = "default"
  Documents <- MCDocuments
  Requests = {r1}
  Upstream <- MCUpstream
  DefaultProvider = 0
  Settings = {FALSE}
  Span = 1
  MinRequests = 1
  SampleFloor = 1
  MaxLoad = 1
  MaxFaults = 0
INVARIANTS EvidenceIsTrailing
CHECK_DEADLOCK FALSE
