SPECIFICATION WSpec
CONSTANTS
  Stores = {"memory", "hydra"}
  Nodes <- SixNodes
  Origin = "g"
  Edges <- EdgesOf
  Graphs <- AllGraphs
  Late = {"b"}
  Value <- Calls
  Depths = {3, 5}
  MaxLearn = 1
INVARIANTS PathsArePaths FindsWhatIsReachable TotalsCountOnce
CHECK_DEADLOCK FALSE
