SPECIFICATION Spec
CONSTANTS
  Device = {"d"}
  Group = {"g"}
  Request = {}
  Web = {"web"}
  Cli = {"cli"}
  MaxTime = 0
  MaxOps = 4
  OneAtATime = TRUE
  Torn = Torn
  Mixed = Mixed
  Missing = Missing
INVARIANTS
  TypeOK
  OpenIsListed
PROPERTIES
  JournalFollowsFile
