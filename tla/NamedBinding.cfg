\* A request for Kubernetes and four for Azure, two of which ask for the same and one for
\* what an administrator has assigned; four calls. All calls may end.
CONSTANTS
  k1 = k1
  z1 = z1
  z2 = z2
  z3 = z3
  z4 = z4
  editor = editor
  owner = owner
  reader = reader
  Requests = {k1, z1, z2, z3, z4}
  Azure = {z1, z2, z3, z4}
  Asks <- AsksAlike
  Standing = {reader}
  Calls = {c1, c2, c3, c4}
SPECIFICATION Spec
SYMMETRY Symmetry
INVARIANT GrantGivesAccess
INVARIANT RevokedLeavesNothing
PROPERTY KeepsContract
CHECK_DEADLOCK FALSE
