SPECIFICATION FairSpec
CONSTANTS
  Scope = {"d1", "d2"}
  Target = {"t1", "t2"}
  Covers <- Devices
  Conn = {"c1"}
  Goal <- OneGoal
  MaxTime = 2
INVARIANTS
  TypeOK
  ClosedMeansDisconnected
  ListedArePermitted
PROPERTIES
  ClosingEnds
