SPECIFICATION Spec
CONSTANTS
  Conns = {c1, c2}
  Names = {n1, n2}
  MaxLogins = 2
  Repeaters = {c1}
  None = None
SYMMETRY Symmetry
INVARIANTS OnePlayerPerName NameHasLogin NoGhost ReferenceValid
