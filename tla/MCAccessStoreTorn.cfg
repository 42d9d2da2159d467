SPECIFICATION WorkSpec
CONSTANTS
  Device = {}
  Group = {}
  Request = {}
  Web = {"web"}
  Cli = {"cli"}
  MaxTime = 0
  MaxOps = 2
  OneAtATime = FALSE
  Torn = Torn
  Mixed = Mixed
  Missing = Missing
INVARIANTS
  NeverHalfAFile
