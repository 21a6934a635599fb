CONSTANTS
  Keys = {k1, k2, k3}
  Period = 2
  Epoch = 1
  MaxStep = 3
  MaxTime = 12
SPECIFICATION Spec
INVARIANTS TypeOK SpreadBounded NearLastPrune
PROPERTY SuppressesExactly
