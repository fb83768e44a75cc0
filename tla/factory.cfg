SPECIFICATION FairSpec
CONSTANTS
  Watchdogs = {w1, w2}
  i1 = i1
  i2 = i2
  i3 = i3
  Ranking <- TwoIdeas
  MaxBuilding = 1
  MaxBuilders = 1
  Limit = 2
  MaxBuilds = 2
  Transports = {"outbox", "workorder", "agentbuild"}
  Suites <- MCSuites
  Failures = 2
  Crashes = 1
INVARIANTS BuilderOncePerBuild RunningWasHandedOver OneLiveBuildPerIdea CapacityRespected
PROPERTY IdeasAreHandedOver
