SPECIFICATION HookFairSpec
CONSTANTS
  Assets = {a1, a2}
  ScopeOf <- MCScopeOf
  HookScope = "scope"
  Parts = 3
  Readable = 2
  MaxRuns = 1
  RoleBudget = 14
  HeadReserve = 2
  ChunkLimit = 6
  TitleReserve = 1
  MaxTexts = 4
  MaxLength = 7
INVARIANTS
  OnlyDecided
  DrawnWithoutGap
  CapturesTheWholeDigest
PROPERTIES
  MainReturns
CHECK_DEADLOCK FALSE
