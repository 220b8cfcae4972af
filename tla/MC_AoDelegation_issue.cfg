CONSTANTS
  d1 = d1 d2 = d2 r1 = r1
  Directives = {d1, d2}
  Repairs = {r1}
  Threshold = 2
  MaxRepairs = 1
  MaxLapses = 1
  MaxOutages = 1
SPECIFICATION Spec
INVARIANTS TypeOK OneJobPerDirective  ClaimNotLeaked
PROPERTIES IssueReleased
CHECK_DEADLOCK FALSE
