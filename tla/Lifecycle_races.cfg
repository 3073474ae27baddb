SPECIFICATION Spec
CONSTANTS
  r1 = r1
  r2 = r2
  a1 = a1
  a2 = a2
  q1 = q1
  q2 = q2
  None = None
  Runs = {r1}
  Approvals = {a1}
  Requests = {q1, q2}
  Template <- MCDowngrade
  Expiries = {"none", "future"}
  MaxAttempts = 2
  MaxStalls = 1
  MaxFaults = 0
CHECK_DEADLOCK FALSE
INVARIANTS TypeOK SubmittedOnlyIfGranted
PROPERTIES SettledRunIsFinal SettledApprovalIsFinal
SYMMETRY RequestSymmetry
