SPECIFICATION Spec
CONSTANTS
  rate = 3
  burst = 2
  SECONDS = 3
  Dsts = {7, 9}
  Uints = 16
  Sizes = {1, 3}
  max_flows = 2
  MaxTime = 4
INVARIANT PutHasRoom
CHECK_DEADLOCK FALSE
