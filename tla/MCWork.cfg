SPECIFICATION WorkSpec
CONSTANTS
  Person = {a, b, c, d}
  Team = {t1}
  PR = {u1, u2}
  Url = {w1, w2, v1}
  None = None
  Slice = {s1, s2}
  Validator = {b}
  Check = {c1}
  Author <- Contributor
  Names <- Leads
  Canonical <- Written
  PerTick = 1
  CronRuns = TRUE
  Reviewer = {c, d}
  Opener <- Openers
  a = a
  b = b
  u1 = u1
  u2 = u2
  w1 = w1
  w2 = w2
  v1 = v1
  s1 = s1
  s2 = s2
INVARIANTS
  GreenThenMerged
  ActiveIsOwnWork
  EarnedIsVouched
PROPERTIES
  ValidatedIsFinal
CHECK_DEADLOCK FALSE
