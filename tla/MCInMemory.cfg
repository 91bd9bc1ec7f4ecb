SPECIFICATION InMemorySpec
CONSTANTS
  b1 = b1
  b2 = b2
  b3 = b3
  strong = strong
  weak = weak
  URLs = {b1, b2, b3}
  Sources = {strong, weak}
  SourceOf <- MCSourceOf
  NoTag = NoTag
  Refs = {p1, p2, p3, p4}
  Free = Free
  MaxConns = 1
SYMMETRY MCSymmetry
INVARIANTS
  InMemoryTypeOK
  UniqueURLs
  HealthyAgrees
PROPERTIES
  SourceIsolation
  StablePointers
  ImplementsPool
