\* Two proposals, two effects, one change of scope or restart.
CONSTANTS
  acme = acme
  other = other
  partner = partner
  bank = bank
  order = order
  move = move
  client = client
  Tenants = {acme, other}
  Models <- SomeModels
  Nouns = {client}
  Groups <- SomeGroups
  Packs <- SomePacks
  Owns <- OwnsSome
  OwnsName <- OwnsNameSome
  Risky = {move}
  Declared <- DeclaredSome
  PackMethods <- PackMethodsSome
  Verbs <- SomeVerbs
  Resembles <- ResemblesSome
  Scopes <- SomeScopes
  Configs <- SomeConfigs
  Malformed = Malformed
  MaxProposals = 2
  MaxEffects = 2
  MaxChanges = 1
  None = None
SPECIFICATION Spec
INVARIANTS DecisionIsPolicy EffectsPermitted RiskyDeletesCritical ReversalTier
CHECK_DEADLOCK FALSE
