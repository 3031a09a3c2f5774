\* A STATUS by key in a multi-tenant adapter.
CONSTANTS
  Threads = {t1, t2}
  Workspaces = {w1, w2}
  NoWorkspace = NoWorkspace
  SecretKeys <- TwoSecrets
  NoClient = NoClient
  CalmVault = TRUE
  MaxVersions = 1
  MaxStores = 4
  MaxRequests = 2
  MaxCalls = 1
SPECIFICATION Spec
INVARIANT StatusIsRouted
CHECK_DEADLOCK FALSE
