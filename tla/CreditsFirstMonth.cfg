CONSTANTS
  Server = {p1, p2}
  Sweeper = {p1, p2}
  None = None
  Requests = 1
  MaxPeriods = 2
  MaxCuts = 1
SPECIFICATION CreditsSpec
INVARIANTS
  MonthGrantedOnce
SYMMETRY Symmetry
CHECK_DEADLOCK FALSE
