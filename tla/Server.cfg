\* A client of gRPC and one of the gateway or MCP with a call each, a webhook that forwards
\* the events of one call, a syslog server with one outage or stall, and up to two signals or
\* failures.
CONSTANTS
  c1 = c1
  c2 = c2
  hook = hook
  None = None
  Calls = {c1, c2}
  Ways <- SomeWays
  Posters = {hook}
  Syslogs = {syslog}
  Forwarded <- SomeForwarded
  Stalling = {syslog}
  MaxOutages = 1
  MaxEnds = 2
SPECIFICATION FairSpec
INVARIANT SignalCutsNoCall
INVARIANT FailedOnlyWhenDown
PROPERTY LockComesFree
PROPERTY ServesAgain
PROPERTY NotificationsEnd
