SPECIFICATION PartsSpec
CONSTANTS
  Parts = {"bucket", "loader", "wait", "cache", "docs", "list", "trace"}
  Requests = {q1, q2}
  Keys = {ka, kb}
  One = 2
  OptCapacity = 5
  OptRate = 2
  DefaultCapacity = 40
  DefaultRate = 20
  MaxClock = 2
  AllOptions <- McOptions
  AllListings <- McListings
  Unreadable <- McUnreadable
  MaxHeld = 6
  Budget = 40
  RequestTime = 4
  InitialBackoff = 2
  MaxBackoff = 60
  Decayed <- McDecayed
  Testers = {"t1", "t2"}
  TesterConfigs <- McTesterConfigs
  WatchedPairs <- McWatchedPairs
  TTL = 1
  TestTime = 1
  CacheClock = 3
  Providers = {"p1", "p2"}
  Nobody = "nil"
  Places = 2
  ListKeys <- McListKeys
  ValueLists <- McValueLists
  MaxKeys = 3
  Numbers <- McNumbers
  NotANumber = NotANumber
  ListConfigs <- McListConfigs
  TraceOptions <- McTraceOptions
  TraceIds = {"i1"}
SYMMETRY Interchangeable
INVARIANTS
  TypeOK
  PartsTypeOK
  WindowQuota
  AmbiguityIsRefused
  RepetitionIsHarmless
  WaitIsBounded
  EarlyApiIsFound
  AnswerHasSource
  ListIsExact
  OneTrace
PROPERTIES
  RefusedAfterBurst
  RefusalIsFree
  LoadIsExact
  VerdictIsRecent
CHECK_DEADLOCK FALSE
