CONSTANTS
  Nil = Nil
  ClassId = {"text", "author"}
  DefaultClass = "text"
  Keyword = {"a", "b"}
  Topic = {1, 2}
  Batches <- TwoClasses
  ModelClasses <- TextOnly
  InitialRows <- RandomRows
  CountRows <- Counters
  RegularizerLists <- Lists
  UserModels <- Written
  MaxQueue = 2
  MaxUpdates = 4
SPECIFICATION Spec
INVARIANTS
  TypeOK
  NormalizerExact
  ReloadSame
  PushAdds
PROPERTIES
  NewTokensAlive
CHECK_DEADLOCK FALSE
