SPECIFICATION FairSpec
CONSTANTS
  KnownClasses <- Classes
  Texts <- MCTexts
  Records <- MCRecords
  Replies <- MCReplies
  Captures <- MCCaptures
  Inspects = {0, 2, 3}
INVARIANT TypeOK
INVARIANT LinedUp
PROPERTY Refines
PROPERTY Terminates
CHECK_DEADLOCK FALSE
