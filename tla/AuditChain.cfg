\* Four appends at once, three attempts each. All of them may end.
CONSTANTS
  Appenders = {a1, a2, a3, a4}
  MaxAttempts = 3
SPECIFICATION Spec
SYMMETRY Symmetry
INVARIANT ChainUnbroken
INVARIANT WrittenOnce
INVARIANT GivenUpWhenOvertaken
PROPERTY ImplementsAuditLog
CHECK_DEADLOCK FALSE
