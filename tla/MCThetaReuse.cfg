CONSTANTS
  Nil = Nil
  Model = {1}
  Batch = {11}
  Processors = {p1}
  ProcessorQueueMaxSize = 1
  MergerQueueMaxSize = 1
  CacheTheta = TRUE
  Calls = {"InvokeIteration", "WaitIdle"}
  QuietCalls = {"InvokeIteration"}
  MaxCalls = 2
  IterationCounts = {2}
  CreateStatuses = {}
  DisposableModels = {}
  ProcessorCounts = {}
  InitialSchemas <- AllEnabled
  InitialBatches = {11}
SPECIFICATION Spec
INVARIANT ThetaReusedEveryPass
CHECK_DEADLOCK FALSE
