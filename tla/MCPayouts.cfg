CONSTANTS
  Req = {r1, r2}
  Key = {k1}
  Sweep = Sweep
  None = None
  Rails = {"transfer", "polled", "pushed"}
  Funds = 2
  MaxStops = 1
  MaxLost = 1
  MaxChecks = 2
SPECIFICATION FairSpec
INVARIANTS
  AskedOnceOnRecord
  EndedRowsAreTrue
  ReturnedIsUnpaid
PROPERTIES
  NoneStaysPending
  RefusalIsHandled
CHECK_DEADLOCK FALSE
