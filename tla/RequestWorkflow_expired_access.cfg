\* One break-glass grant expires; a provider call may fail once.
CONSTANTS
  Requests = {r1}
  Calls = {c1}
  Sweepers = {s1}
  Users = {alice, root}
  Admins = {root}
  Agent = agent
  Null = null
  Ops = {"break_glass"}
  MayFail = {"provider"}
  MaxFailures = 1
SPECIFICATION Spec
INVARIANT ExpiredHasNoAccess
