SPECIFICATION FairSpec
CONSTANTS
  MemoryIds = {m1}
  EvidenceIds = {e1, e2}
  Scopes = {s1, s2}
  Contents = {c1}
  Sessions = {}
  Roles = {"user", "assistant"}
  AllowedRoles = {"user"}
  MultiSession = FALSE
  NoEvidence = NoEvidence
  NoProposal = NoProposal
  NoSession = NoSession
  DraftTtl = 1
  MaxTime = 2
  ReuseIds = TRUE
INVARIANTS
  LinksSound
  DisputedNeedsHuman
PROPERTIES
  DeletionInScope
  ImplementsGovernedAssets
  DraftsLeaveQueue
