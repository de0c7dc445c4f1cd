SPECIFICATION Spec
CONSTANTS
  Tests <- TsigForTwo
  Limit = 2
  CompileLimit = 1
  Grace = 1
  MaxCrash = 0
  StrayKnotd = FALSE
PROPERTY DifferenceFails
