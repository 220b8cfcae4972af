CONSTANTS
  b1 = b1 b2 = b2 c1 = c1 c2 = c2 c3 = c3
  j1 = j1 j2 = j2 j3 = j3 j4 = j4 f1 = f1 f2 = f2 f3 = f3
  Bridges = {b1, b2}
  InitiallyUp = {b1, b2}
  Calls = {c1, c2, c3}
  BatchCalls = {c2}
  Jobs = {j1, j2, j3, j4}
  JobsOf <- MCJobsOf
  Fingerprints = {f1, f2, f3}
  FingerprintOf <- MCFingerprintOf
  NoJob = NoJob
  NoBridge = NoBridge
  MaxConcurrent = 2
  MaxQueue = 2
  MaxStops = 0
  MaxRedisErrors = 0
  MaxExpiries = 0
SPECIFICATION FairSpec
INVARIANTS GlobalCap SlotsOwned OneJobPerFingerprint
PROPERTY RefinesPool
CHECK_DEADLOCK FALSE
