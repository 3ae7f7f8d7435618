CONSTANTS
  Caller = {a, b}
  Poller = {p}
  Rails = {"stripe", "fedapay"}
  MaxStarts = 2
  MaxDeclines = 1
  MaxLost = 1
  MaxStops = 1
SPECIFICATION FairSpec
INVARIANTS
  PaidIsDeliveredOnce
  PaidIsFound
PROPERTIES
  CardPaymentArrives
