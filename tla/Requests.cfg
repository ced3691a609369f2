\* Two requests at a time, generated or streamed, with two gateway routes.
SPECIFICATION GatewaySpec
CONSTANTS
  r1 = r1  r2 = r2
  Requests = {r1, r2}
  Messages <- MCMessages
  Modes = {"generate", "stream"}
  Gateway <- MCGatewaySettings
  Chains <- MCChains
  Threshold = 2
  Attempts = 2
  MaxTokens = 1
  HistoryLimit = 50
CHECK_DEADLOCK FALSE
INVARIANTS
  GatewayTypeOK CloudNeedsAuthority CircuitConsistent AttemptsAccounted
PROPERTIES
  OutputKeepsRoute RequestsAnswered
