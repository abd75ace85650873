SPECIFICATION FairSpec
CONSTANTS
  Conns = {c1, c2}
  Names = {n1}
  MaxLogins = 1
  Repeaters = {}
  None = None
PROPERTY KickLeadsToClose
