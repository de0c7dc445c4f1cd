SPECIFICATION FairSpec
CONSTANTS
  Tests <- AllTests
  Limit = 3
  CompileLimit = 2
  Grace = 2
  MaxCrash = 2
  StrayKnotd = TRUE
INVARIANT TypeOK
INVARIANT VerdictSound
INVARIANT CompleteCountIsTrue
INVARIANT KnotdCrashReported
INVARIANT RefusesOnlyStray
INVARIANT CleanExit
PROPERTY Termination
