\* Two threads, two retries, a transport that repeats a request once on a reset.
CONSTANTS
  Threads = {t1, t2}
  NoThread = NoThread
  MaxRetries = 2
  ResetRetries = 1
  MaxCalls = 2
SPECIFICATION FairSpec
INVARIANTS WireExclusive HonestVerdict
PROPERTIES AtomicCall EveryCallReturns
CHECK_DEADLOCK FALSE
