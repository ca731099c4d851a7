SPECIFICATION FairSpec
CONSTANTS
  t1 = t1  t2 = t2  t3 = t3
  None = None
  Turns = {t1, t2, t3}
  Target = t1
  Recent = 2
INVARIANT TellsOfTheTurn
PROPERTY WaitEnds
CHECK_DEADLOCK FALSE
