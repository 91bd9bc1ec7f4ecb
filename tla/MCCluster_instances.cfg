SPECIFICATION FairSpec
CONSTANTS
  Instances = {i1, i2}
  URLs = {b1}
  b1 = b1
  b2 = b2
  MaxInbox = 1
  Order <- AnyOrder
  MaxProbes = 1
  MaxEvents = 1
PROPERTIES
  Converges
