CONSTANTS
  root = root
  mg = mg
  f1 = f1
  f2 = f2
  d1 = d1
  p1 = p1
  k1 = k1
  c1 = c1
  c2 = c2
  e1 = e1
  a1 = a1
  v1 = v1
  v2 = v2
  s1 = s1
  s2 = s2
  NotYet = NotYet
  Gone = Gone
  None = None
  Stay = Stay
  Keep = Keep
  Top = Top
SPECIFICATION Spec
INVARIANTS
  TreeHangsTogether
  CurrentIsWhatWasEntered
  NothingDangles
PROPERTIES
  ProfileGoesWithItsUser
  HistoryIsFinal
CHECK_DEADLOCK FALSE
