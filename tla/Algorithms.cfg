SPECIFICATION Spec
CONSTANTS
  NoArticle = NoArticle
  RerankLimit = 3
  GroupCap = 2
  EvidenceLimit = 2
  MinimumScore = 1
  MaxRelations = 3
INVARIANTS EvidenceIsBest AnswersAreGrounded FactsAreCurrent IndexKeepsText WindowsHold RepliesArriveWhole
