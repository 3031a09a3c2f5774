\* A sound environment: callers wait, Odoo settles, the schema can be read.
CONSTANTS
  Threads = {t1, t2}
  Keys = {k1, k2}
  NoKey = NoKey
  MarkerOf <- ExactMarkers
  Proposals = {p1, p2}
  NoProposal = NoProposal
  HasIdemField = TRUE
  Overlap = FALSE
  LateLanding = FALSE
  SchemaFaults = FALSE
  Hidden = 1
  MaxRequests = 4
  MaxRestarts = 1
SPECIFICATION Spec
SYMMETRY Interchangeable
INVARIANTS OneRecordPerKey NotFoundIsTrue
PROPERTY IdempotentCommit
CHECK_DEADLOCK FALSE
