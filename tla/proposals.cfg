SPECIFICATION JobFairSpec
CONSTANTS
  MemoryIds = {m1, m2}
  EvidenceIds = {e1}
  Scopes = {s1}
  Contents = {c1}
  Sessions = {}
  Roles = {user}
  AllowedRoles = {user}
  MultiSession = FALSE
  NoEvidence = NoEvidence
  NoProposal = NoProposal
  NoSession = NoSession
  DraftTtl = 1
  MaxTime = 0
  ReuseIds = TRUE
  Calls = {j1, j2}
  MaxRetries = 1
  Cancellable = {j1}
  MaxCandidates = 2
INVARIANTS
  LinksSound
  CallFailuresTrue
PROPERTIES
  NewDraftsAreNew
  JobsEnd
