\* Two threads, three requests, every server.
CONSTANTS
  t1 = t1
  t2 = t2
  Threads = {t1, t2}
  Majors <- OldAndNew
  MaxRequests = 3
  None = None
SPECIFICATION Spec
INVARIANTS AvailableIsServed ReadWritesNothing LinksKept
CHECK_DEADLOCK FALSE
