CONSTANTS
  Nil = Nil
  Model = {1, 2}
  Batch = {11, 12}
  Processors = {p1, p2}
  ProcessorQueueMaxSize = 1
  MergerQueueMaxSize = 1
  CacheTheta = TRUE
  Calls = {"InvokeIteration", "DisposeModel"}
  QuietCalls = {}
  MaxCalls = 2
  IterationCounts = {1}
  CreateStatuses = {"enabled"}
  DisposableModels = {1}
  ProcessorCounts = {1, 2}
  InitialSchemas <- AllEnabled
  InitialBatches = {11, 12}
SPECIFICATION Spec
INVARIANTS
  ModelPresent
CHECK_DEADLOCK FALSE
