SPECIFICATION FairSpec
CONSTANT CommandLines <- MCCommandLines
CONSTANT Ids = {300}
CONSTANT Retries = 2
CONSTANT Answers <- MCAnswers
CONSTANT Strays <- MCStrays
CONSTANT OptionNames <- MCOptionNames
INVARIANT TypeOK
INVARIANT RequestReadBack
INVARIANT NoSilentMismatch
INVARIANT PrintedIsSent
PROPERTY Ends
CHECK_DEADLOCK FALSE
