SPECIFICATION GroupsSpec
CONSTANTS
  Worker = {w1, w2}
  User = {u1, u2, u3}
  Creator = u1
  Caps = {2, 3}
  Bodies <- OneField
  None = None
  MaxMoves = 4
  u1 = u1
  v1 = v1
  v2 = v2
  Person = {u1, u2, u3, v1, v2}
  Companies <- Pairs
  Hall = {h1, h2}
  MaxMembers = 3
  MaxStops = 1
  GuildMoves = 4
  Officer = {o1, o2}
  Side = {g1, g2}
  War = {i1, i2}
  StartGp = {0, 100}
  Percents <- Bronze
  Bonus = 100
  Nothing = Nothing
  MaxEarned = 1
INVARIANTS
  CohortIsSound
  GuildIsLed
  WarsAreFair
PROPERTIES
  ArrivalsFit
  OrganizerStays
SYMMETRY Symmetry
CHECK_DEADLOCK FALSE
