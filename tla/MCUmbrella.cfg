CONSTANTS
  NoUnit = NoUnit
  NoCfid = NoCfid
  Nothing = Nothing
  PathOf <- mcPathOf
  GenericNames <- mcGenericNames
  MinSupport = 30
  Children <- mcChildren
  NodesOf <- mcNodesOf
  Notes <- mcNotes
  FirstNote <- mcFirstNote
  ClusterOf <- mcClusterOf
  LeavesOf <- mcLeavesOf
  Readings <- mcReadings
  DomainGateEnforce = TRUE
  EnforceValueGuard = TRUE
  CfidOrder <- mcCfidOrder
  Proposers = {p1}
  People = {h1, h2}
  MaxNotes = 1
  MaxDeaths = 1
SPECIFICATION UmbrellaSpec
INVARIANTS
  ListedByState
  
  LineageFollows
SYMMETRY Symmetry
CHECK_DEADLOCK FALSE
