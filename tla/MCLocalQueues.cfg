CONSTANTS
  Nil = Nil
  Model = {1}
  Batch = {11, 12, 13}
  Processors = {p1, p2}
  ProcessorQueueMaxSize = 1
  MergerQueueMaxSize = 1
  CacheTheta = TRUE
  Calls = {"CreateModel", "InvokeIteration", "WaitIdle", "Reconfigure", "Destroy"}
  QuietCalls = {"CreateModel", "InvokeIteration"}
  MaxCalls = 4
  IterationCounts = {1}
  CreateStatuses = {"enabled", "disabled"}
  DisposableModels = {1}
  ProcessorCounts = {1, 2}
  InitialSchemas <- AllEnabled
  InitialBatches = {11, 12, 13}
SPECIFICATION FairSpec
INVARIANTS
  ProcessorQueueBounded
  MergerQueueBounded
PROPERTIES
  WaitIdleReturns
  JoinsReturn
CHECK_DEADLOCK FALSE
