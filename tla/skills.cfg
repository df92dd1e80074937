SPECIFICATION Spec
CONSTANTS
  Skills = {k1}
  Names = {n1}
  Scopes = {s1, s2}
  EvidenceIds = {e1, e2}
  Clients = {c1, c2}
  Descriptions = {d1, d2}
  Bodies = {b1}
  MaxVersion = 3
  NoEvidence = NoEvidence
  NoRow = NoRow
  ReuseIds = FALSE
  Titles = {"A", "a", "B"}
  TitleOf <- MCTitleOf
  Lines = {"", "text", "- step"}
  Steps = {"- step"}
  Blank = ""
  Capability <- MCCapability
  Fields = {"name", "description"}
  Values = {1, 2}
  NoField = 0
  MaxText = 3
  MaxBody = 3
INVARIANTS
  CurrentRow
  BaselineIsLastPublished
  NoLostUpdate
  ReviewShowsTheChange
PROPERTIES
  HistoryFrozen
  DeletionWithdraws
  ImplementsGovernedAssets
