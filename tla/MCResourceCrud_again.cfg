\* A retried upsert.
CONSTANTS
  Threads = {t1, t2}
  Keys = {k1, k2}
  NoKey = NoKey
  name = name
  Fields = {name, state}
  Dedup = name
  Stage = state
  Posted = posted
  Draft = draft
  Vals = {posted, draft}
  Within <- Contained
  None = None
  Gone = Gone
  FirstRecord <- AllDraft
  Asks <- OnlyUpsert
  IgnoresDeletes = TRUE
  Quiet = TRUE
  MaxIds = 2
  MaxRequests = 4
  MaxEdits = 1
SPECIFICATION Spec
SYMMETRY Interchangeable
INVARIANT UpsertReplayed
CHECK_DEADLOCK FALSE
