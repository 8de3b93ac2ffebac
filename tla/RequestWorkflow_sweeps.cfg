\* Two requests with an RPC each that approve, evaluate, roll back, grant or revoke, two
\* replicas that sweep them, one failure of any kind.
CONSTANTS
  Requests = {r1, r2}
  Calls = {c1, c2}
  Sweepers = {s1, s2}
  Users = {alice}
  Admins = {}
  Agent = agent
  Null = null
  Ops = {"create", "approve", "ai_approve", "revoke"}
  MayFail <- Failures
  MaxFailures = 1
SPECIFICATION FairSpec
INVARIANT SweepExclusive
PROPERTY ExpiredIsSwept
PROPERTY AccessEnds
PROPERTY ApprovalResolves
