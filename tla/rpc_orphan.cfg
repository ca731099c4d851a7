SPECIFICATION Spec
CONSTANTS
  a = a  b = b  c = c  d = d  x = x
  Nobody = Nobody
  Callers = {a, b}
  Closers = {d}
  Exit = x
  MaxConns = 2
  Transports = {"proxy"}
  Junk = FALSE
INVARIANTS NothingLeft
CHECK_DEADLOCK FALSE
