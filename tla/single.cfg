SPECIFICATION Spec
CONSTANTS
  Workers = {w1}
  Runs = {r1}
  NoRun = NoRun
  ImportRuns = {r1}
  idea = idea
  Ideas = {idea}
  IdeaOf <- OneIdea
  Base = base
  Commits = {base, c1, c2, foreign}
  Descendants = {base, c1, c2}
  MaxSuite = 1
  Reverts = FALSE
  Outcomes = {"PASS", "FAIL", "ERROR"}
  Budget <- OperatorAndEdits
INVARIANTS PromotedPassedItsSuite
