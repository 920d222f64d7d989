SPECIFICATION Spec
CONSTANTS
  n1 = n1
  n2 = n2
  Namespaces = {n1}
  Names = {a}
  NoNs = NoNs
  NoName = NoName
  MaxIndex = 2
  Mtus = {2}
  Clients = {c1}
  Contexts <- PlainContexts
  Kinds = {"soft"}
  LinkNs <- NoClientNs
  Ops = {"Add", "Set", "Up"}
  Faults = {}
  Homed = TRUE
  Moves = FALSE
  Enslave = FALSE
PROPERTIES SetSetsAttributes
CHECK_DEADLOCK FALSE
