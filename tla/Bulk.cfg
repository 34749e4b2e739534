SPECIFICATION Spec
CONSTANTS
  t1 = t1
  t2 = t2
  p1 = p1
  p2 = p2
  Transfer = {t1, t2}
  Processor = {p1, p2}
  Expirable = {t1, t2}
  MaxPrepares = 2
  MaxFulfils = 1
  MaxFaults = 1
SYMMETRY Symmetry
CONSTRAINT AtMostTwo
INVARIANTS TypeOK AskedTogether ToldIsFinished
CHECK_DEADLOCK FALSE
