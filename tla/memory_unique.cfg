SPECIFICATION Spec
CONSTANTS
  MemoryIds = {m1}
  EvidenceIds = {e1, e2}
  Scopes = {s1}
  Contents = {c1, c2}
  Sessions = {x, y}
  Roles = {"user", "assistant"}
  AllowedRoles = {"user"}
  MultiSession = TRUE
  NoEvidence = NoEvidence
  NoProposal = NoProposal
  NoSession = NoSession
  DraftTtl = 1
  MaxTime = 1
  ReuseIds = FALSE
INVARIANTS
  AutoVerifiedBacked
PROPERTIES
  DeletionWithdraws
CHECK_DEADLOCK FALSE
