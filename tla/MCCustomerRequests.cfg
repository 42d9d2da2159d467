SPECIFICATION FairSpec
CONSTANTS
  r1 = r1
  r2 = r2
  o1 = o1
  o2 = o2
  Request = {r1}
  Asks <- OnlyOne
  User = {"u1", "u2"}
  MaxRequests = 1
  MaxLate = 1
  MaxRestarts = 1
INVARIANTS
  ApprovedWasOpened
  ReceivedOnce
PROPERTIES
  AnswersHold
  AnswerArrives
