CONSTANTS
  Nil = Nil
  Model = {1}
  Batch = {11, 12}
  Nodes = {1, 2}
  ProcessorQueueMaxSize = 1
  Unreadable = {}
  MayStop = {2}
  MayRestart = {}
  Calls = {"InvokeIteration", "WaitIdle"}
  QuietCalls = {"InvokeIteration"}
  MaxCalls = 2
  IterationCounts = {2}
  NodeSets = {}
  InitialNodes = {1, 2}
  InitialModels = {1}
  InitialDisk = {11, 12}
SPECIFICATION FairSpec
INVARIANTS
  WaitIdleComplete
  Conservation
PROPERTIES
  NetworkWaitIdleReturns
  ImplementsTracking
CHECK_DEADLOCK FALSE
