SPECIFICATION StoreSpec
CONSTANTS
  Tasks = {s1}
  Threads = {loop, builder}
  EventLoop = loop
  MaxChanges = 4
  MaxStarts = 1
INVARIANT WritesPersist
CHECK_DEADLOCK FALSE
