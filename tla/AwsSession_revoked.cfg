\* One grant and its revocation in jitsudod's own account, around a second's end.
CONSTANTS
  r1 = r1
  r2 = r2
  r3 = r3
  own = own
  other = other
  reader = reader
  Requests = {r1, r2}
  Accounts = {own}
  HomeAccount = own
  RoleNames = {reader}
  FirstRoles <- SameNames
  RoleOf <- OwnRoles
  Calls = {c1, c2}
  Durations = {1, 3}
  StsMin = 2
  StsMax = 3
  MaxDuration = 0
  MaxTime = 2
SPECIFICATION Spec
INVARIANT RevokedIsDenied
CHECK_DEADLOCK FALSE
