SPECIFICATION FairSpec
CONSTANTS
  n1 = n1
  n2 = n2
  Nodes = {n1, n2}
  Knows <- KnowsOneWay
  Ctxs = {a, b}
  Home <- HomeSecond
  Names = {x}
  Calls = {k1}
  None = None
INVARIANTS StatusHonest RightContext
PROPERTY CallEndsOrRuns
CHECK_DEADLOCK FALSE
