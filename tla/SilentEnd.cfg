\* One request whose local stream may end without a word.
SPECIFICATION GatewaySpec
CONSTANTS
  r1 = r1  r2 = r2
  Requests = {r1}
  Messages <- StreamMessages
  Modes = {"stream"}
  Gateway <- MCGatewaySettings
  Chains <- MCChains
  Threshold = 2
  Attempts = 2
  MaxTokens = 2
  HistoryLimit = 50
CHECK_DEADLOCK FALSE
INVARIANTS
  FallbackBeforeOutput
