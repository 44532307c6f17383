SPECIFICATION Spec
CONSTANTS
  Threads = {t1, t2}
  Elements = {a, b}
  Junk = junk
  Capacity = 0
  MaxCapacity = 4
  Closers = {}
  Destroyer = none
SYMMETRY Symmetry
PROPERTY ImplementsFifo
CHECK_DEADLOCK FALSE
