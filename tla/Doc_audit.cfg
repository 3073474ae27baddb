SPECIFICATION Spec
CONSTANTS
  p1 = p1
  p2 = p2
  w1 = w1
  w2 = w2
  w3 = w3
  s1 = s1
  Processes = {p1}
  Writers = {w1, w2, w3}
  ProcessOf <- MCOneProcess
  Logins = {s1}
  MaxEvents = 3
  MaxFaults = 0
INVARIANT AlwaysVerifies
CHECK_DEADLOCK FALSE
