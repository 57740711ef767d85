SPECIFICATION FairSpec
CONSTANTS
  Gateways = {g1}
  Connectors = {c1}
  Drafts = {a, b}
  NoDraft = NoDraft
  Down = Down
  Closed = Closed
  Asked = Asked
  Debounce = 1
  StreamAllowed = TRUE
  StoreOutcomes = {TRUE}
  FaultKinds = {"drop", "restart"}
  MaxFaults = 1
  MaxChanges = 2
PROPERTIES Converges
CHECK_DEADLOCK FALSE
