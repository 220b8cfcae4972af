CONSTANTS
  b1 = b1 b2 = b2 c1 = c1 c2 = c2 c3 = c3
  j1 = j1 j2 = j2 j3 = j3 j4 = j4 f1 = f1 f2 = f2 f3 = f3
  Bridges = {b1, b2}
  InitiallyUp = {b1, b2}
  Calls = {c1, c2, c3}
  BatchCalls = {c2}
  Jobs = {j1, j2, j4}
  JobsOf <- MCJobsOf3
  Fingerprints = {f1, f2, f3}
  FingerprintOf <- MCFingerprintOf3
  NoJob = NoJob
  NoBridge = NoBridge
  MaxConcurrent = 1
  MaxQueue = 1
  MaxStops = 1
  MaxRedisErrors = 1
  MaxExpiries = 1
SPECIFICATION Spec
SYMMETRY MCSymmetry
INVARIANTS TypeOK BacklogBound ActiveBound NoLostJob
CHECK_DEADLOCK FALSE
