CONSTANTS
  Worker = {w1, w2}
  None = None
  Instalments = 2
  MaxRounds = 1
  MaxStops = 1
  u1 = u1
  u2 = u2
  u3 = u3
  Handler = {h1, h2}
  Field <- Three
  Sums = {3}
  Fragments = 100
  MaxScore = 1
  Nil = Nil
  MaxCuts = 1
  MaxReopens = 1
  MaxMoves = 3
SPECIFICATION EscrowsSpec
INVARIANTS
  PostedFirst
  OnlyAcceptedIsPaidEarly
  RefundedAtProviderFirst
  SettledOnce
  SeizuresAreSound
  PaidOutExactly
  EscrowMatchesState
SYMMETRY Symmetry
CHECK_DEADLOCK FALSE
VIEW Seen
