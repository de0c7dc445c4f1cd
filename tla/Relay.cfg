SPECIFICATION FairSpec
CONSTANT Clients = {c1, c2, c3}
CONSTANT MaxQueue = 2
CONSTANT MaxLost = 1
CONSTANT MaxDoubled = 1
INVARIANT TypeOK
INVARIANT OwnAnswer
INVARIANT OneAfterSignal
PROPERTY Served
CHECK_DEADLOCK FALSE
