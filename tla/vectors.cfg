SPECIFICATION FairSpec
CONSTANTS
  Memories = {m1}
  Skills = {k1}
  Texts = {t1, t2}
  NoText = NoText
  Syncs = {y1, y2}
  BatchSize = 1
INVARIANTS
  UndisturbedSyncIsExact
  OnlyOfferedIndexed
PROPERTIES
  SyncsEnd
