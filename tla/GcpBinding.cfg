\* Two requests of one project, three calls, one edit of others, two tries each. All calls may end.
CONSTANTS
  Requests = {r1, r2}
  Calls = {c1, c2, c3}
  MaxRetries = 2
  MaxEdits = 1
SPECIFICATION Spec
SYMMETRY Symmetry
INVARIANT NoEditLost
INVARIANT BoundOnce
INVARIANT RevokedLeavesNothing
INVARIANT GivenUpWhenOvertaken
PROPERTY KeepsContract
CHECK_DEADLOCK FALSE
