SPECIFICATION FairSpec
CONSTANTS
  Device = {"d"}
  Group = {}
  Request = {"r"}
  Web = {"web"}
  Cli = {"cli"}
  MaxTime = 1
  MaxOps = 2
  OneAtATime = FALSE
  Torn = Torn
  Mixed = Mixed
  Missing = Missing
PROPERTIES
  GateConverges
