\* The daily briefing, with a source that does not answer.
SPECIFICATION MCHungSpec
CONSTANTS
  t1 = t1  t2 = t2  k1 = k1  c1 = c1  c2 = c2  r1 = r1  r2 = r2  r3 = r3  r4 = r4
  Kinds = {"token", "empty", "done", "error"}
  MaxItems = 3
  QueueSize = 2
  Threads = {t1, t2}
  Clients = {k1}
  Cast = {"researcher", "coder"}
  BoxSize = 2
  MaxCalls = 2
  Callers = {c1, c2}
  Facts <- MCFacts
  Setups <- MCSetups
  RecentWindow = 12
  MaxRecords = 1
  Runs = {r1, r2, r3, r4}
  LoopOf <- MCLoopOf
  ContextOf <- MCContextOf
  Persisting = {"third", "fourth"}
  Feed <- MCFeed
  Named <- MCNamed
  Listed = {"draft_email", "send_email", "create_event"}
  Firewall <- MCFirewall
CHECK_DEADLOCK FALSE
PROPERTIES
  EveryBriefingDelivered
