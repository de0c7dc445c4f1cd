SPECIFICATION FairSpec
CONSTANTS
  N = 4
  Types = 2
  Retries = 2
  MaxUpdates = 3
INVARIANT TypeOK
INVARIANT ListedOnce
INVARIANT EnumeratesStableOfTwo
PROPERTY WalkEnds
