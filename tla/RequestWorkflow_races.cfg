\* One request, three RPCs on it, two replicas, one failure of any kind.
CONSTANTS
  Requests = {r1}
  Calls = {c1, c2, c3}
  Sweepers = {s1, s2}
  Users = {alice, root}
  Admins = {root}
  Agent = agent
  Null = null
  Ops <- AllOps
  MayFail <- Failures
  MaxFailures = 1
SPECIFICATION Spec
SYMMETRY Symmetry
INVARIANT TypeOK
INVARIANT GrantIsDecided
INVARIANT BreakGlassAlerted
INVARIANT AccessAccounted
INVARIANT RevokesFollowGrant
INVARIANT AuditTruthful
INVARIANT AuditComplete
INVARIANT SoleOwner
INVARIANT SingleGrant
INVARIANT AuditOnce
INVARIANT AuditInOrder
PROPERTY ImplementsLifecycle
