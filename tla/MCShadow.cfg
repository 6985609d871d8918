SPECIFICATION Spec
CONSTANTS
  Elem = "[]"
  Keys <- MCKeys
  TokensOf <- MCTokensOf
  EscapedAs <- MCEscapedAs
  Suspicious = {"y"}
  MaxFields = 3
  MaxPathDepth = 2
  Scale = 60
  Cands = {1, 2}
  Growth <- MCGrowth
  Publications <- MCPublications
  Relations = {"exact", "incompatible_similarity"}
  MinSamples = 1
  MinObservations = 2
  TopK = 2
  PageSize = 1
  CacheCapacity = 1
  MaxFaults = 1
  MaxEntries = 2
INVARIANTS
  
  
  MarkedIsLoggedOnce
CHECK_DEADLOCK FALSE
