SPECIFICATION FairSpec
CONSTANTS
  a = a
  b = b
  Nodes = {a, b}
  Type <- MCType
  Needed <- MCNeeded
  Dialable = {a}
  TimeOutMax = 2
  MaxLink = 7
  Running = {a, b}
  Frail = {a}
  MaxLoss = 1
  MaxEvent = 1
INVARIANTS UniqueIds RegisteredIsConnected KnowsPeers DropsGone
PROPERTIES Settles
CHECK_DEADLOCK FALSE
