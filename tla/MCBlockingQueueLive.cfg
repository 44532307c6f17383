SPECIFICATION FairSpec
CONSTANTS
  Threads = {t1, t2}
  Elements = {a}
  Junk = junk
  Capacity = 1
  MaxCapacity = 1
  Closers = {main, other}
  Destroyer = main
 
PROPERTY CallsReturn
CHECK_DEADLOCK FALSE
