SPECIFICATION Spec
CONSTANTS
  MaxId = 3
  MaxActs = 2
  Workers = {w1, w2}
CHECK_DEADLOCK FALSE
INVARIANTS NoLoopRemains AloneIsSound OneOriginal FixFlattens
