\* Two calls of one session, in one context or two, of which one is retained.
SPECIFICATION ConvSpec
CONSTANTS
  t1 = t1  t2 = t2  t3 = t3  s1 = s1  s2 = s2  k1 = k1  k2 = k2
  Turns = {t1, t2}
  Sessions = {s1}
  Keys = {k1, k2}
  NoTurn = NoTurn
  NoSession = NoSession
  MaxActive = 2
  HistoryLimit = 2
  MaxSessions = 1
  KeepLimit = 1
  PoolSize = 2
  MaxSentences = 2
SYMMETRY CallSymmetry
CHECK_DEADLOCK FALSE
INVARIANTS
  ConvTypeOK LiveTurnsApart CompletedTold OneSentenceMore
PROPERTY HistoryStaysCurrent
