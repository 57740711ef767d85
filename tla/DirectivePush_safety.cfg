SPECIFICATION Spec
CONSTANTS
  Gateways = {g1}
  Connectors = {c1}
  Drafts = {a, b}
  NoDraft = NoDraft
  Down = Down
  Closed = Closed
  Asked = Asked
  Debounce = 1
  StreamAllowed = TRUE
  StoreOutcomes = {TRUE}
  FaultKinds = {"drop", "restart", "poll"}
  MaxFaults = 1
  MaxChanges = 3
INVARIANTS TypeOK VersionNamesOneList NextVersionIsFresh StaleConnectorIsVisible
PROPERTIES ImplementsFeed
CHECK_DEADLOCK FALSE
