SPECIFICATION Spec
CONSTANTS
  N = 6
  MaxDamage = 0
INVARIANT NoFalseAlarm
