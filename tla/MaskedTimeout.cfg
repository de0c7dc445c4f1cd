SPECIFICATION Spec
CONSTANTS
  Tests <- WaitForTwo
  Limit = 2
  CompileLimit = 1
  Grace = 1
  MaxCrash = 0
  StrayKnotd = FALSE
INVARIANT IncompleteWaitFails
