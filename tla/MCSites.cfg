CONSTANTS
  c1 = c1
  c2 = c2
  a1 = a1
  a2 = a2
  x1 = x1
  x2 = x2
  s1 = s1
  s2 = s2
  k1 = k1
  t1 = t1
  t2 = t2
  r1 = r1
  r2 = r2
  o1 = o1
  None = None
  Gone = Gone
SPECIFICATION Spec
INVARIANTS
  TrailIsComplete
  DisplaysApart
  ReadsWhatWasSent
  HandedOutIsAudited
PROPERTIES
  TalksToThePinned
  AskedOnce
CHECK_DEADLOCK FALSE
