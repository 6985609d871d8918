CONSTANTS
  Schemas = {"s1", "s2"}
  Clients = {c1, c2}
  NoSem = NoSem
  None = None
  Nfc <- mcNfc
  ControlKeys = {}
  Registered <- mcRegistered
  Generic <- mcGeneric
  IdfMinPopulation = 4
  IdfMax = 3
  AnchorIdfMin = 1
  CountCap = 4
  MaxCandidates = 5
  Metas <- mcMetas
  SemOf <- mcSemOf
  KeysOf <- mcKeysOf
  Allowed <- mcAllowed
  Priors <- mcPriors
  MaxRevisions = 3
  Online = FALSE
SYMMETRY mcSymmetry
SPECIFICATION Spec
INVARIANTS  AnswersMatchHistory EveryRevisionChangesMeaning
CHECK_DEADLOCK FALSE
