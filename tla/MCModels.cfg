SPECIFICATION PartSpec
CONSTANTS
  NoSchema = NoSchema
  NoCluster = ""
  SafetyClusters = {"safety:1"}
  HoldoutFamilies = {"g"}
  ExportCap = 1
  Z2 = 1
  MinTestN = 4
  MaxWrongValid = 25
  MinPrecision = 50
  FamilyMinN = 3
  FamilyFloor = 20
  MinRecall = 50
  Margin = 10
  RecallMargin = 10
  MaxFalseMergeCi = 60
  ModelIds = {m1, m2}
  NoModel = NoModel
  Evidence = {"good", "better", "merging"}
  NoEvidence = NoEvidence
  Passes <- McPasses
  Regresses <- McRegresses
  Controllers = {c1, c2}
  Examples <- McExamples
  Recorded <- McRecorded
  Actors = {"bob"}
  MinShadowHold = 1
  MaxStream = 4
  MaxClock = 1
  MaxFaults = 1
  FieldPool <- McFieldPool
  TypesOf <- McTypesOf
  NovelTemplates <- McNovel
  Draws <- McDraws
  Variants = 10
  MaxFamilies = 3
  MaxEasy = 1
  Rounds = 2
  BatchSize = 2
  FamilyOfCase <- McFamilyOfCase
  Backends = {"fake", "modal", "hf"}
  Budgets = {1, 2}
  Ceiling = 1
  MaxPollAttempts = 2
  MaxMishaps = 2
  MaxRevealed = 8
SYMMETRY Symmetry
INVARIANTS ServedModelsAreProven TrainedOnAdmissible CorpusIsSound HonestTrajectory
 
CHECK_DEADLOCK FALSE
