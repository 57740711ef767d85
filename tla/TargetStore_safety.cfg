SPECIFICATION Spec
CONSTANTS
  Processes = {p1, p2}
  Clients = {c1, c2}
  Docs = {d1, d2}
  Resources = {"targets"}
  NoDoc = NoDoc
  NoClient = NoClient
  MaxVersion = 3
  MaxFaults = 1
INVARIANTS TypeOK CopiesAreRecorded NoLostUpdate
PROPERTIES TargetsImplement OwnWriteIsVisible
CHECK_DEADLOCK FALSE
