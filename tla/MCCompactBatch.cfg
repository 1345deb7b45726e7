CONSTANTS
  Nil = Nil
  ClassId = {"text", "author"}
  DefaultClass = "text"
  Keyword = {11, 12, 13}
  Vocab <- ThreeWords
  Header <- Headers
  ItemId = {1, 2}
  LineTokenId = {0, 1, 2, 3}
  LineTokenCount = {0, 2}
  NumItemsPerBatch = 2
  CooccurrenceTokens = {12, 11, 13}
  DictionaryFiles = {"dictionary", "cooccurrence"}
  ExistingFiles <- MayExist
  UserBatches <- Tagged
  CompactBatches = {TRUE, FALSE}
  MaxLines = 5
  MaxBatches = 1
SPECIFICATION Spec
INVARIANTS
  ContentKept
CHECK_DEADLOCK FALSE
