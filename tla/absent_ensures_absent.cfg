SPECIFICATION Spec
CONSTANTS
  n1 = n1
  n2 = n2
  Namespaces = {n1}
  Names = {a}
  NoNs = NoNs
  NoName = NoName
  MaxIndex = 2
  Mtus = {}
  Clients = {c1, c2}
  Contexts <- PlainContexts
  Kinds = {"soft"}
  LinkNs <- NoClientNs
  Ops = {"Add", "Del", "Absent"}
  Faults = {}
  Homed = TRUE
  Moves = FALSE
  Enslave = FALSE
PROPERTIES AbsentEnsuresAbsent
CHECK_DEADLOCK FALSE
