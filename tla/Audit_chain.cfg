SPECIFICATION FairSpec
CONSTANTS
  p1 = p1
  p2 = p2
  w1 = w1
  w2 = w2
  w3 = w3
  s1 = s1
  Processes = {p1, p2}
  Writers = {w1, w2, w3}
  ProcessOf <- MCTwoProcesses
  Logins = {s1}
  MaxEvents = 3
  MaxFaults = 1
INVARIANTS TypeOK ChainVerifies
PROPERTIES BreakIsLasting RecordSettles
CHECK_DEADLOCK FALSE
