SPECIFICATION RecallSpec
CONSTANTS
  Memories = {m1}
  Skills = {k1}
  Texts = {t1, t2}
  NoText = NoText
  Syncs = {y1}
  BatchSize = 1
  Recalls = {r1}
  LexicalTexts = {t1}
  NearTexts = {t2}
  LexicalWeight = 1
  VectorWeight = 1
  Headroom = 2
  MaxDocuments = 3
  MaxScore = 2
  MaxLength = 2
  MaxResults = 2
  MaxChars = 4
  Letters = {"a"}
  Ideographs = {"h", "p", "q"}
  Pronouns = {"p", "q"}
  MaxQuery = 3
  MaxContent = 4
  MinContainment = 2
INVARIANTS
  AnswersWereRecallable
  StableHitsFound
  AnswersGivenAreTruthful
  AnswersMatchTheirQuery
