SPECIFICATION Spec
CONSTANTS
  Workers = {w1, w2}
  Runs = {r1, r2}
  NoRun = NoRun
  ImportRuns = {}
  idea = idea
  Ideas = {idea}
  IdeaOf <- OneIdea
  Base = base
  Commits = {base, c1}
  Descendants = {base, c1}
  MaxSuite = 0
  Reverts = FALSE
  Outcomes = {"PASS", "FAIL"}
  Budget <- Undisturbed
SYMMETRY Symmetry
INVARIANTS PromotedWasVerified VerifiedHasEvidence
PROPERTY ImplementsGate
