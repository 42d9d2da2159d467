CONSTANTS
  s1 = s1
  s2 = s2
  k1 = k1
  k2 = k2
  a1 = a1
  a2 = a2
  x1 = x1
  x2 = x2
  c1 = c1
  t1 = t1
  t2 = t2
  None = None
SPECIFICATION Spec
INVARIANT CountsWhatItCarries
PROPERTIES
  OnlyTheLastGoesOffline
  
CHECK_DEADLOCK FALSE
