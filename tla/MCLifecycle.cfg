SPECIFICATION FairSpec
CONSTANTS
  a = a
  b = b
  e1 = e1
  e2 = e2
  r1 = r1
  r2 = r2
  r3 = r3
  URLs = {a, b}
  Latencies = {1, 2}
  MaxSamples = 2
  Requests = {r1, r2, r3}
  Records <- MCRecords
  Exports = {e1, e2}
  MaxPoints = 1
INVARIANTS
  LifecycleTypeOK
  Breakdown
  UniformSample
  PercentilesCover
  DrainedCounted
  LoneExportComplete
PROPERTIES
  ExitsAfterSignal
CHECK_DEADLOCK FALSE
