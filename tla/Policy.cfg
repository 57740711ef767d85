SPECIFICATION Spec
CONSTANTS
  Providers <- MCProviders
  ModelOf <- MCModelOf
  HostOf <- MCHostOf
  RegionOf <- MCRegionOf
  AnyHost = "any"
  Whole = 4
  Catalogue <- MCCatalogue
  Wires <- MCWires
  Sightings <- MCSightings
  Lives <- MCLives
  Instants = {0, 1, 2}
INVARIANTS
  TypeOK
  HardIsNeverConceded
  ListIsFailoverOrder
  UnboundMeansUnconstrained
  RefusedIsOutOfReach
  JudgeAgreesWithRouting
