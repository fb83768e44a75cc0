SPECIFICATION FairSpec
CONSTANTS
  Workers = {w1, w2}
  Runs = {r1}
  NoRun = NoRun
  ImportRuns = {}
  idea = idea
  Ideas = {idea}
  IdeaOf <- OneIdea
  Base = base
  Commits = {base, c1}
  Descendants = {base, c1}
  MaxSuite = 0
  Reverts = FALSE
  Outcomes = {"PASS", "FAIL", "ERROR"}
  Budget <- KillsAndCrashes
PROPERTY FinishedRunsSettle
INVARIANTS SingleFlight LockHasOwner PromotedIsMerged JudgedOncePerSupervisor
