\* One replica and its sync, two RPCs, one failure.
CONSTANTS
  Replicas = {r1}
  Calls = {c1, c2}
  p1 = p1
  p2 = p2
  Names = {p1, p2}
  helper = helper
  caller = caller
  Regos = {helper, caller}
  Uncompilable <- NeedsHelper
  Inputs <- Changes
  FirstTables <- HelperUnused
  MaxFailures = 1
SPECIFICATION FairSpec
INVARIANT SwapIsWhole
PROPERTY CheckedWriteCompiles
PROPERTY EffectiveUnlessOverlapped
PROPERTY ReplicasConverge
