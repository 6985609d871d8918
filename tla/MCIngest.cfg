SPECIFICATION EdgeSpec
CONSTANTS
  Producers = {"p1", "p2"}
  Postings <- MCPostings
  Route <- MCRoute
  Allowlist <- MCAllowlist
  IngestToken = "secret"
  NoToken = NoToken
  Sink = TRUE
  MaxBodyBytes = 2
  MaxHeaderBytes = 2
  MaxHeaderCount = 4
  MaxPosts = 2
  MaxLives = 2
  Cands = {1, 2}
  SourceOf <- MCSourceOf
  Reconcilers = {1, 2}
  NamedSchemas = {1}
  Namers = {1}
  MaxNow = 2
  Sources = {s1}
  Allowed = {s1}
  SettleAfter = 3
  SampleRate = 3
  CounterMax = 4
  Shapes = {x1, x2}
  Malformed = Malformed
  Schemas = {a, b}
  Nothing = Nothing
  LruCapacity = 1
  RelayLane = relay
  ProxyLanes = {h1}
INVARIANTS
  TracesAreOfARequest
  KeyedWritesApplyOnce
  
  TagsFollowTheIndex
  SampledInTime
PROPERTIES
  
  HumanNameStands
CHECK_DEADLOCK FALSE
