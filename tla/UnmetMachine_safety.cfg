SYMMETRY ProcessSymmetry
SPECIFICATION Spec
CONSTANTS
  Processes = {p1, p2}
  Providers = {v1}
  NoState = NoState
  Window = 1
  MinRequests = 1
  SampleFloor = 2
  TargetPct = 100
  MaxRequests = 1
  MaxTime = 3
  MaxFaults = 1
  LastFault = 1
  Trailing = 1
INVARIANTS TypeOK TwoWindowRule OneNotifier
PROPERTIES ImplementsRecord
CHECK_DEADLOCK FALSE
