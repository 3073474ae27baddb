SPECIFICATION ClientsSpec
CONSTANTS
  Runs = {r1, r2}
  Queues = {"workflow-runs", "workflow-resume"}
  Production = TRUE
  None = None
  Sessions = {m1, m2, m3}
  Fetches = {n1, n2}
  NoSession = NoSession
  WorkflowRuns = {w1, w2}
  Uploads = {n1, n2}
  MaxUpload = 2
  RunQuota = 3
  OrgQuota = 4
  MaxStored = 4
  NoRun = NoRun
  Sites <- MCSites
  ActionTypes = {"fill_form", "make_purchase"}
  RiskSignals = {"credential_used", "submit_button"}
  NoAmount = NoAmount
  MaxCents = 2
  Keys = {m1, m2, m3}
  LimitMax = 2
  WindowTicks = 2
  MaxBuckets = 2
  MaxHits = 4
  Mutations = {n1, n2}
SYMMETRY Symmetric
INVARIANTS ClientsTypeOK RefusedOnlyIfDisturbed LimitHolds NoDeadCookie TimelineIsTrue OwnWritesAreShown
PROPERTIES DecisionsOnlyTighten OverrunEndsProcess LiveIsClearedOnlyIfOvertaken SignOutLasts
