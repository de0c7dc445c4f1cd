SPECIFICATION FairSpec
CONSTANTS
  N = 6
  MaxDamage = 2
INVARIANT TypeOK
INVARIANT VerifiedIsGenuine
INVARIANT NoFalseAlarmOfOne
PROPERTY Termination
