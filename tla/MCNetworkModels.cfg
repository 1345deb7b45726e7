CONSTANTS
  Nil = Nil
  Model = {1, 2}
  Batch = {11, 12}
  Nodes = {1, 2}
  ProcessorQueueMaxSize = 2
  Unreadable = {}
  MayStop = {}
  MayRestart = {}
  Calls = {"InvokeIteration", "WaitIdle"}
  QuietCalls = {"InvokeIteration"}
  MaxCalls = 2
  IterationCounts = {1}
  NodeSets = {}
  InitialNodes = {1, 2}
  InitialModels = {1, 2}
  InitialDisk = {11, 12}
SPECIFICATION Spec
INVARIANT WaitIdleComplete
CHECK_DEADLOCK FALSE
