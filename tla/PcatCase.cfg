SPECIFICATION FairSpec
CONSTANTS
  KnownClasses <- Classes
  Texts <- MCTexts
  Records <- MCRecords
  Replies <- MCReplies
  Captures <- MCCaptures
  Inspects = {0, 2, 3}
CHECK_DEADLOCK FALSE
INVARIANT CaseIsIgnored
