CONSTANTS
  s1 = s1 s2 = s2
  Sessions = {s1}
  MaxConcurrent = 1
  MaxCrashes = 1
  MaxFailures = 2
SPECIFICATION Spec
INVARIANTS TypeOK TrackedUntilReported  SweepHarvestsOrphans
PROPERTIES SessionsReported GoneForgotten
CHECK_DEADLOCK FALSE
