CONSTANTS
  Limits <- MCLimits
  WindowMs = 2
  MaxTracked = 1
  Readers = {r1, r2}
  MaxBytes = 1
  DrainLimit = 1
  Routes = {"read", "write", "change", "propose", "login"}
  Credentials = {"key", "reader", "revoked"}
  AccessKey = "key"
  TeamTokens <- MCTokens
  Scopes <- MCScopes
  Addresses = {"here"}
  All = All
  SinkMayFail = TRUE
  MaxTime = 2
SPECIFICATION GateSpec
INVARIANTS BodiesSound QuotaExact OnlyPermitted AnswersAudited
SYMMETRY MCSymmetry
CHECK_DEADLOCK FALSE
