\* Two threads, three kinds of events, room for two of them.
SPECIFICATION FairSpec
CHECK_DEADLOCK FALSE
CONSTANTS
  Threads = {t1, t2}
  Kinds = {k1, k2, k3}
  NoKind = NoKind
  CacheLen = 1
  LogLen = 2
  MaxCalls = 4
INVARIANTS
  TypeOK
  CacheStaysBounded
  LogShowsTheLatest
PROPERTIES
  CallsEnd
