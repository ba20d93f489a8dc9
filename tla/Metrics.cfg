SPECIFICATION Spec
CHECK_DEADLOCK FALSE
CONSTANTS
  Threads = {t1, t2}
  MaxCalls = 3
INVARIANTS
  TypeOK
  CountersAreOrdered
  ScrapeIsCovered
  IdleCountersAgree
