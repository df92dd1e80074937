SPECIFICATION McpFairSpec
CONSTANTS
  inA = inA
  inB = inB
  Assets = {inA, inB}
  ScopeOf <- MCScopeOf
  Requests = {r1, r2}
  Tokens = {"tokenA", "tokenB", "mute", "unknown"}
  PrincipalOf <- MCPrincipalOf
  SinkMayFail = TRUE
INVARIANTS
  DeliveredWasVerified
PROPERTIES
  ShutdownEnds
CHECK_DEADLOCK FALSE
