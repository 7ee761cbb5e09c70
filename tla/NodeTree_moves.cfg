SPECIFICATION TreeSpec
CONSTANTS
  NodeCount = 4
  NodeName = {"root", "a", "b"}
  RootName = "root"
  Client = {c1, c2}
  MaxCalls = 2
  InitTrees <- MoveTrees
INVARIANTS
  NoNodeBelowItself
CHECK_DEADLOCK FALSE
