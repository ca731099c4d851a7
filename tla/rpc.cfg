SPECIFICATION FairSpec
CONSTANTS
  a = a  b = b  c = c  d = d  x = x
  Nobody = Nobody
  Callers = {a, b}
  Closers = {d}
  Exit = x
  MaxConns = 2
  Transports = {"unix", "proxy"}
  Junk = TRUE
INVARIANTS NoneForgotten GreetedFirst OneReader UnixLeavesNothing
PROPERTY EveryTaskEnds
CHECK_DEADLOCK FALSE
