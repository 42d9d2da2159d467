CONSTANTS
  ann = ann
  bob = bob
  f1 = f1
  d1 = d1
  r1 = r1
  s1 = s1
  s2 = s2
  i1 = i1
  i2 = i2
  g1 = g1
  u1 = u1
  u2 = u2
  l1 = l1
  m1 = m1
  p1 = p1
  p2 = p2
  w1 = w1
  w2 = w2
  x = x
  t1 = t1
  t2 = t2
  t3 = t3
  Automatic = Automatic
  NotYet = NotYet
  None = None
  Top = Top
SPECIFICATION Spec
SYMMETRY Interchangeable
INVARIANTS
  GrantIsWhatWasApproved
  BackupRestores
  
  ChainHolds
  PlacesAgree
PROPERTIES
  ImplementsFourEyes
  DecidedForGood
  NobodyRaisesThemselves
CHECK_DEADLOCK FALSE
