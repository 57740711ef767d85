SPECIFICATION FairSpec
CONSTANTS
  Gateways = {g1}
  Connectors = {c1, c2}
  Drafts = {a, b}
  NoDraft = NoDraft
  Down = Down
  Closed = Closed
  Asked = Asked
  Debounce = 1
  StreamAllowed = TRUE
  StoreOutcomes = {TRUE}
  FaultKinds = {}
  MaxFaults = 0
  MaxChanges = 2
PROPERTIES Converges
CHECK_DEADLOCK FALSE
