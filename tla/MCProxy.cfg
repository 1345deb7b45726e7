CONSTANTS
  Nil = Nil
  Nodes = {n1}
  Clients = {c1, c2}
  Thread = {n1, c1, c2}
  Calls = {"CreateMasterComponent", "CreateMasterProxy", "Dispose", "CreateModel", "InvokeIteration", "WaitIdle", "WaitIdleTimeout", "Connect"}
  MaxCalls = 4
SPECIFICATION FairSpec
INVARIANTS
  TypeOK
  NothingLost
  OneHosted
  ProxyFresh
PROPERTIES
  CallsReturn
CHECK_DEADLOCK FALSE
