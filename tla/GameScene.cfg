SPECIFICATION SceneSpec
CONSTANTS
  Conns = {c1, c2}
  Names = {n1, n2}
  PlotLen = 2
  MaxViews = 3
  None = None
SYMMETRY Symmetry
INVARIANTS RewardOnce PlotToPlayer
PROPERTY LineToPlayer
