SPECIFICATION Spec
CONSTANTS
  a = a
  b = b
  c = c
  Names <- ThreeNames
  OldFile <- NoFile
  Count = 3
  PoolShare = 3
  PoolMax = 3
  MaxRuns = 2
SYMMETRY NameSymmetry
INVARIANT TypeOK
INVARIANT AliasExclusive
INVARIANT ChildlessInRun
INVARIANT TargetsExist
INVARIANT NoAliasChain
PROPERTY ZoneSpec
