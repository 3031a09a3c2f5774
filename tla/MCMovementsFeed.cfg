\* Three moves, pages of two, seconds of two instants, in every world.
CONSTANTS
  Moves <- ThreeMoves
  Limits <- PageSizes
  Grain = 2
  Worlds <- SomeWorlds
  NoPage = NoPage
  MaxTime = 3
  MaxWrites = 3
SPECIFICATION FairFeed
INVARIANTS NothingSkipped NothingRepeated CompleteIsTrue
PROPERTY EveryMoveDelivered
CHECK_DEADLOCK FALSE
