\* A break-glass request and an approver who finds its row before the alert.
CONSTANTS
  Requests = {r1}
  Calls = {c1, c2}
  Sweepers = {s1}
  Users = {alice, root}
  Admins = {root}
  Agent = agent
  Null = null
  Ops = {"break_glass", "approve"}
  MayFail = {}
  MaxFailures = 0
SPECIFICATION Spec
INVARIANT AlertBeforeGrant
