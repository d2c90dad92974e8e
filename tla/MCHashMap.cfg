SPECIFICATION MCSpec
CONSTANTS
  capacity = 4
  Keys = {k1, k2, k3, k4}
  Hashes = {0, 3, 7}
  Values = {k1, k2, k3, k4}
SYMMETRY KeySymmetry
INVARIANT ChainsCount
PROPERTY ImplementsKeyMap
