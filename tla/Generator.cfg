CONSTANTS
  Frames = {f1, f2, f3, f4, f5}
  Gens = {g1, g2}
  Its = {i1, i2}
  Values = {v1, v2}
  Null = Null
SPECIFICATION Spec
SYMMETRY Symm
CHECK_DEADLOCK FALSE
INVARIANTS OwnedOnce PointersAgree ResumesSuspended
PROPERTY ImplementsStream
