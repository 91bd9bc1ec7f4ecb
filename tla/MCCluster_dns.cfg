SPECIFICATION FairSpec
CONSTANTS
  Instances = {i1}
  URLs = {b1, b2}
  b1 = b1
  b2 = b2
  MaxInbox = 1
  Order <- FixedOrder
  MaxProbes = 1
  MaxEvents = 2
INVARIANTS
  TypeOK
  SlotsExact
  OnlyFailuresSpread
PROPERTIES
  Converges
