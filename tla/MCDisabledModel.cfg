CONSTANTS
  Nil = Nil
  Model = {1, 2}
  Batch = {11}
  Processors = {p1, p2}
  ProcessorQueueMaxSize = 1
  MergerQueueMaxSize = 1
  CacheTheta = FALSE
  Calls = {"CreateModel", "InvokeIteration", "WaitIdle"}
  QuietCalls = {"CreateModel", "InvokeIteration"}
  MaxCalls = 3
  IterationCounts = {1}
  CreateStatuses = {"enabled", "disabled"}
  DisposableModels = {}
  ProcessorCounts = {}
  InitialSchemas <- SecondOnly
  InitialBatches = {11}
SPECIFICATION FairSpec
PROPERTY WaitIdleAlwaysReturns
CHECK_DEADLOCK FALSE
