CONSTANTS
  Worker = {w1, w2}
  None = None
  Share = 2
  Fee = 1
  MaxStops = 0
SPECIFICATION Spec
INVARIANT MoneyMovesOnce
CHECK_DEADLOCK FALSE
