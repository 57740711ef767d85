SPECIFICATION FairSpec
CONSTANTS
  Processes = {p1, p2}
  Clients = {c1}
  Docs = {d1}
  Resources = {"targets", "reservations"}
  NoDoc = NoDoc
  NoClient = NoClient
  MaxVersion = 2
  MaxFaults = 1
PROPERTIES Propagates ReservationsImplement
CHECK_DEADLOCK FALSE
