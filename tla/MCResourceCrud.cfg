\* Every operation of both families, undone once, beside other people's edits.
CONSTANTS
  Threads = {t1, t2}
  Keys = {k1, k2}
  NoKey = NoKey
  name = name
  Fields = {name, state}
  Dedup = name
  Stage = state
  Posted = posted
  Draft = draft
  Vals = {posted, draft}
  Within <- Contained
  None = None
  Gone = Gone
  FirstRecord <- AllDraft
  Asks <- EveryAsk
  IgnoresDeletes = TRUE
  Quiet = TRUE
  MaxIds = 2
  MaxRequests = 4
  MaxEdits = 1
SPECIFICATION Spec
SYMMETRY Interchangeable
INVARIANTS NoStaleWrite TokensTrue ExecutedWasAccepted
  SuccessIsEarned
  ReplayWritesNothing UndoSparesOthers CuratedReversalHappened
PROPERTY UpsertNeverDoubles
CHECK_DEADLOCK FALSE
