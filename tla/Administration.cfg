SPECIFICATION Spec
CHECK_DEADLOCK FALSE
CONSTANTS
  Users = {u1, u2, u3}
  Calls = {c1, c2}
  Agents = {a1}
  Grantees = {a1, a2}
  Policies = {p1, p2}
  Credentials = {k1}
  Vendors = {v1, v2}
  Customers = {x1, x2}
  Subscriptions = {s1, s2}
  Webhooks = {w1}
  MaxVersion = 3
  MaxState = 2
  VendorRows = {v1, v2}
  WorkflowRows = {w1}
  MaxChanges = 1
  None = None
SYMMETRY Symmetric
INVARIANTS TypeOK
PROPERTIES OwnerRemains OwnersRuleOwners RevokedStaysRevoked OneActiveBundle CredentialsMoveOn SecretsAreForGrantees CustomerOwnsSubscription CompletedNeverSetsBack WorkflowsAreReady
