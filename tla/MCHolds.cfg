CONSTANTS
  Worker = {w1, w2}
  None = None
  Share = 2
  Fee = 1
  MaxStops = 1
SPECIFICATION FairSpec
INVARIANTS
  RowsAreBacked
  RefundedAtProviderFirst
  RowMatchesBooks
PROPERTIES
  CustodySpec
  DueIsReleased
CHECK_DEADLOCK FALSE
