SPECIFICATION FairSpec
CONSTANTS
  Sites = {s1}
  Fleet = {}
  Observers = {o1}
  Judges = {k1}
  Consumers = {c1}
  KeepLast = 1
  MaxTasks = 2
  MaxBreaks = 1
  MaxFaults = 1
  Commands = {TRUE, FALSE}
INVARIANTS AckedIsAccepted OneRepairPerSite
PROPERTIES VerdictCatchesUp TasksAreActedOn
