SPECIFICATION FairSpec
CONSTANTS
  c1 = c1  c2 = c2  c3 = c3  p1 = p1  p2 = p2  i1 = i1  i2 = i2
  t1 = t1  here = here  there = there  title = title  text = text  other = other
  None = None
  Calls = {c1, c2}
  Procs = {p1, p2}
  Ids = {i1}
  Threads = {t1}
  Paths = {here, there}
  Titles = {title}
  Texts = {text, other}
  Requested <- LinkRequests
  OldRows <- LinkOldRows
INVARIANT ReplaysItsOwnArguments
PROPERTIES RetryIsNeverRefused EveryCallEnds
CHECK_DEADLOCK FALSE
