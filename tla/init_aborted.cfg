CONSTANTS
  MaxDisconnects = 2
  EmptyThreshold = 1
  RemoteBudget = 3
SPECIFICATION Spec
INVARIANT InitGoesOn
CHECK_DEADLOCK FALSE
