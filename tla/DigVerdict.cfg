SPECIFICATION Spec
CONSTANTS
  RRs = {"x", "m"}
  Steps = 2
  Excusable = {"m"}
INVARIANT VerdictExactOfOne
INVARIANT ClosedAtEnd
