\* Every kind of request, one edit, any call may fail.
CONSTANTS
  Ids <- ThreeIds
  Words <- SomeWords
  Fold <- Lower
  Within <- Contains
  lk = lk
  falk = falk
  Falk = Falk
  CodeLike = {lk}
  Directories <- AllDirectories
  Requests <- SomeRequests
  NameLimit = 2
  CodeLimit = 2
  ListLimit = 3
  MaxEdits = 1
  None = None
SPECIFICATION Spec
INVARIANTS ApprovedIsWritten GateMirrors SameRecord NamedExactly
CHECK_DEADLOCK FALSE
