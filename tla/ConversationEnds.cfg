\* Three calls of two sessions that say nothing, in threads that need not end.
SPECIFICATION OrderedSpec
CONSTANTS
  t1 = t1  t2 = t2  t3 = t3  s1 = s1  s2 = s2  k1 = k1  k2 = k2
  Turns = {t1, t2, t3}
  Sessions = {s1, s2}
  Keys = {k1, k2}
  NoTurn = NoTurn
  NoSession = NoSession
  MaxActive = 1
  HistoryLimit = 1
  MaxSessions = 1
  KeepLimit = 1
  PoolSize = 1
  MaxSentences = 0
CHECK_DEADLOCK FALSE
PROPERTIES EveryCallReturns TurnsEnd
