SPECIFICATION Spec
CONSTANTS
  Stores = {"memory", "hydra"}
  Jobs = {j1, j2}
  Events <- FourEvents
  MaxLog = 3
  MaxRebuilds = 1
  MaxFaults = 1
INVARIANTS GraphFollowsLog StoreKeepsShape GraphIsLog DispatchedIsProjected
SYMMETRY JobSymmetry
