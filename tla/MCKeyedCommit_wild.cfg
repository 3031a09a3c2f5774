\* Every fault of the environment at once, over two keys of one marker.
CONSTANTS
  Threads = {t1, t2}
  Keys = {k1, k2}
  NoKey = NoKey
  MarkerOf <- SharedMarkers
  Proposals = {p1}
  NoProposal = NoProposal
  HasIdemField = TRUE
  Overlap = TRUE
  LateLanding = TRUE
  SchemaFaults = TRUE
  Hidden = 1
  MaxRequests = 3
  MaxRestarts = 1
SPECIFICATION FairSpec
INVARIANTS ExecutedIsReal RefusalIsTrue
PROPERTY EveryRequestAnswered
CHECK_DEADLOCK FALSE
