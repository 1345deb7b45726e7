CONSTANTS
  Nil = Nil
  Model = {1, 2}
  Batch = {11, 12}
  Processors = {p1, p2}
  ProcessorQueueMaxSize = 1
  MergerQueueMaxSize = 1
  CacheTheta = TRUE
  Calls = {"CreateModel", "DisposeModel", "AddBatch", "InvokeIteration", "WaitIdle", "Reconfigure",
           "Timeout"}
  QuietCalls = {"CreateModel", "DisposeModel", "InvokeIteration"}
  MaxCalls = 6
  IterationCounts = {2}
  CreateStatuses = {"enabled"}
  DisposableModels = {1}
  ProcessorCounts = {1, 2}
  InitialSchemas <- SecondOnly
  InitialBatches = {11}
SPECIFICATION Spec
INVARIANTS
  TypeOK
  Conservation
  WaitIdleComplete
  ThetaComplete
  ModelPresent
  SameIncarnation
  SchemaModelsExist
  ThetaReused
  AtMostOneCopy
  MarkedIffHanded
PROPERTY ImplementsTracking
SYMMETRY ProcessorSymmetry
CHECK_DEADLOCK FALSE
