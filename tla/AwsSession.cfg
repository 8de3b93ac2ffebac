\* Two requests of one role, one of its namesake in another account, four calls. All calls
\* may end.
CONSTANTS
  r1 = r1
  r2 = r2
  r3 = r3
  own = own
  other = other
  reader = reader
  Requests = {r1, r2, r3}
  Accounts = {own, other}
  HomeAccount = own
  RoleNames = {reader}
  FirstRoles <- SameNames
  RoleOf <- SharedRole
  Calls = {c1, c2, c3, c4}
  Durations = {1, 3}
  StsMin = 2
  StsMax = 3
  MaxDuration = 0
  MaxTime = 2
SPECIFICATION Spec
SYMMETRY Symmetry
INVARIANT RevokedInTime
PROPERTY NewerUnaffected
PROPERTY DenialIsFinal
CHECK_DEADLOCK FALSE
