SPECIFICATION NSpec
CONSTANTS
  Requests = {q1, q2, q3}
  a1 = a1
  a2 = a2
  b1 = b1
  bad = bad
  a = a
  b = b
  c1 = c1
  c = c
  None = None
  Type <- MCType
  Subject <- MCSubject
  Envelopes <- MCEnvelopes
  Id <- MCId
  System <- MCSystem
  Complete <- MCEnvelopes
  Intact <- MCEnvelopes
  Batches <- MCBatches
  NoId = NoId
  Crashes = 1
CHECK_DEADLOCK FALSE
SYMMETRY Symmetry
INVARIANTS AnswersAreTrue ProjectedAsStored NativeIsLog NativeFollowsLog
PROPERTY ImplementsLog
