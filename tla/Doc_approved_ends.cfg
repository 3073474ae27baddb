SPECIFICATION FairSpec
CONSTANTS
  r1 = r1
  r2 = r2
  a1 = a1
  a2 = a2
  q1 = q1
  q2 = q2
  None = None
  Runs = {r1}
  Approvals = {a1}
  Requests = {q1}
  Template <- MCDowngrade
  Expiries = {"none"}
  MaxAttempts = 2
  MaxStalls = 1
  MaxFaults = 0
CHECK_DEADLOCK FALSE
PROPERTY ApprovedRunEnds
