SPECIFICATION Spec
CONSTANTS
  Threads = {t1, t2, t3}
  Elements = {a, b}
  Junk = junk
  Capacity = 1
  MaxCapacity = 1
  Closers = {main}
  Destroyer = main
SYMMETRY Symmetry
INVARIANTS
  WakeupsAreExact
  RefusalsAreTrue
  
PROPERTY ImplementsFifo
CHECK_DEADLOCK FALSE
