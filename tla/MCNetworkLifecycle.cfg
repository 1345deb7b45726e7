CONSTANTS
  Nil = Nil
  Model = {1}
  Batch = {11, 12}
  Nodes = {1, 2}
  ProcessorQueueMaxSize = 2
  Unreadable = {12}
  MayStop = {2}
  MayRestart = {2}
  Calls = {"Reconfigure", "CreateModel", "DisposeModel", "AddBatch", "InvokeIteration", "WaitIdle", "Timeout", "InvokePhiRegularizers", "OverwriteTopicModel"}
  QuietCalls = {"Reconfigure", "CreateModel", "DisposeModel", "AddBatch"}
  MaxCalls = 6
  IterationCounts = {1}
  NodeSets = {{1}, {1, 2}}
  InitialNodes = {1}
  InitialModels = {}
  InitialDisk = {11}
SPECIFICATION Spec
INVARIANTS
  TypeOK
  CountedOnce
  ModelsInSync
CHECK_DEADLOCK FALSE
