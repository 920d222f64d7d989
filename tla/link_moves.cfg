SPECIFICATION Spec
CONSTANTS
  n1 = n1
  n2 = n2
  Namespaces = {n1, n2}
  Names = {a, b}
  NoNs = NoNs
  NoName = NoName
  MaxIndex = 2
  Mtus = {}
  Clients = {c1, c2}
  Contexts <- TargetContexts
  Kinds = {"soft", "none"}
  LinkNs <- WithTarget
  Ops = {"Add", "Set", "Del"}
  Faults = {}
  Homed = TRUE
  Moves = TRUE
  Enslave = FALSE
VIEW WithoutRet
SYMMETRY NameSymmetry
PROPERTIES SetMoves
CHECK_DEADLOCK FALSE
