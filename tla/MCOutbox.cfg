CONSTANTS
  Drain = {d1, d2}
  MaxAttempts = 2
  MaxStops = 1
SPECIFICATION FairSpec
INVARIANTS
  NeverGivesUpEarly
  SentOnce
PROPERTIES
  ObligationIsMet
CHECK_DEADLOCK FALSE
