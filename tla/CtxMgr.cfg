SPECIFICATION Spec
CONSTANTS
  Makers = {a1, a2}
  Stoppers = {b1, b2}
  Names = {1, 2}
  MaxAlloc = 3
  IdMod = 2
  NamesPerCtx = 2
  None = None
SYMMETRY Symmetry
INVARIANTS LookupExact NoZombie ShutdownReachesAll
PROPERTIES NamesKept ClashOnlyAfterWrap
