SPECIFICATION Spec
CONSTANTS
  Jobs = {j1, j2}
  Hypotheses <- TwoHypotheses
  DayLength = 1
  NoDay = NoDay
  Entities = {e1, e2}
  Values = {1, 2}
  MaxNow = 2
  MaxLoad = 5
  MaxRuns = 3
  MaxFaults = 1
INVARIANTS RecordedOnce OutcomesStand ClosedIsHandled
CHECK_DEADLOCK FALSE
SYMMETRY JobSymmetry
