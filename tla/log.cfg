SPECIFICATION FairSpec
CONSTANTS
  Writers = {a, b, c}
  NoWriter = NoWriter
  BigWriters = {c}
  Prompt = FALSE
  Kills = 2
CHECK_DEADLOCK FALSE
INVARIANTS LockSettles LinesAreWhole
PROPERTY AppendsEnd
