CONSTANTS
  None = None
  Browser = {b1, b2}
  Req = {r1, r2}
  Apps = {"public", "admin"}
  MaxSessions = 2
  MaxTokens = 4
  MaxEvictions = 1
  MaxStops = 1
SPECIFICATION Spec
INVARIANTS
  ReuseIsReal
  NoGhosts
  EveryoneIsSignedOut
CHECK_DEADLOCK FALSE
SYMMETRY Symmetry
VIEW Seen
