\* Three threads that each take the lock up to twice, as readers or writers.
SPECIFICATION Spec
CONSTANTS
  Threads = {t1, t2, t3}
  MaxUses = 2
INVARIANTS TypeOK CountersTrue NoneForgotten
PROPERTIES EveryoneServed LockSpec
