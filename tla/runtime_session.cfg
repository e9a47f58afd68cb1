SPECIFICATION FairSpec
CHECK_DEADLOCK FALSE
CONSTANTS
  Nil = Nil
  Listeners = {l1, l2}
  Outcomes = {"completed", "aborted"}
  MaxEvents = 3
  MaxRuns = 2
INVARIANTS
  SessionTypeOK
  InOrder
  ReturnedRunHidesNothing
  RunAnswersItsOwnEnd
PROPERTIES
  EveryRunReturns
