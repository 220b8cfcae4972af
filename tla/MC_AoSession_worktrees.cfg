CONSTANTS
  s1 = s1 s2 = s2
  Sessions = {s1, s2}
  MaxConcurrent = 1
  MaxCrashes = 0
  MaxFailures = 0
SPECIFICATION Spec
SYMMETRY MCSymmetry
INVARIANTS RunningWorktreeKept
CHECK_DEADLOCK FALSE
