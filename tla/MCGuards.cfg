CONSTANTS
  s1 = s1
  s2 = s2
  k1 = k1
  c1 = c1
  c2 = c2
  h1 = h1
  h2 = h2
  t1 = t1
  None = None
  Ended = Ended
SPECIFICATION Spec
INVARIANTS
  WorksOnce
  GuessesAreLimited
  LocksOnTime
PROPERTIES
  LockedStaysLocked
CHECK_DEADLOCK FALSE
