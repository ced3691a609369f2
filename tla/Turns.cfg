\* Four turns of two sessions, two at a time through the semaphore.
SPECIFICATION TurnSpec
CONSTANTS
  t1 = t1  t2 = t2  t3 = t3  t4 = t4  s1 = s1  s2 = s2
  Turns = {t1, t2, t3, t4}
  Sessions = {s1, s2}
  NoTurn = NoTurn
  NoSession = NoSession
  MaxActive = 2
  HistoryLimit = 1
SYMMETRY TurnSymmetry
CHECK_DEADLOCK FALSE
INVARIANTS
  TurnTypeOK Registered PermitsKept
PROPERTY NewestTurnOnly
