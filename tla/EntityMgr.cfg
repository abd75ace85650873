CONSTANTS
  NumKinds = 2
  MaxIdx = 3
  MaxVer = 3
  VerMod = 4
  StaleAdds = FALSE
SPECIFICATION Spec
INVARIANTS PoolsCoverIndices CheckExact QueryExact
PROPERTY ImplementsStore
