SPECIFICATION Spec
CONSTANTS
  Limits <- MCLimits
  KeyLength <- MCKeyLength
  KeyClass <- MCKeyClass
  MaxFindings = 3
  MaxRedactDepth = 3
  Payloads <- MCPayloads
  Offsets <- MCOffsets
  CaptureSources = {"trusted"}
  MaxInput = 20
  SampleSize <- MCSampleSize
  MaxSample = 2
  MaxPerCandidate = 1
  Retention = 1
  KeyTtl = 2
  MaxClock = 2
  MaxDeliveries = 2
INVARIANTS ProfileIsTheCensus OneBucket 
PROPERTIES OptionalForGood
CHECK_DEADLOCK FALSE
