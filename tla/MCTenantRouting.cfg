\* Two threads, two workspaces, a vault that fails and is rotated in between.
CONSTANTS
  Threads = {t1, t2}
  Workspaces = {w1, w2}
  NoWorkspace = NoWorkspace
  SecretKeys <- TwoSecrets
  NoClient = NoClient
  CalmVault = TRUE
  MaxVersions = 2
  MaxStores = 4
  MaxRequests = 2
  MaxCalls = 2
SPECIFICATION Spec
INVARIANTS OwnBackend WholeCredentials ClientsBounded
CHECK_DEADLOCK FALSE
