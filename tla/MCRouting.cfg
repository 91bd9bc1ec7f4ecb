SPECIFICATION Spec
CONSTANTS
  a = a
  g1 = g1
  g2 = g2
  b = b
  c = c
  URLs = {a, b, c}
  Callers = {g1, g2}
  Lists <- MCLists
  Modulus = 4
  MaxTurns = 5
  Loads = {0, 1}
  Weight <- MCWeight
  MaxEpochs = 3
SYMMETRY MCSymmetry
INVARIANTS
  RoutingTypeOK
  EvenTurns
  WeightedTypeOK
  RemainingInRange
  ProportionalShare
PROPERTIES
  MeetsContract
  BusiestSpared
