SPECIFICATION Spec
CONSTANTS
  n1 = n1
  n2 = n2
  Namespaces = {n1}
  Names = {a, b}
  NoNs = NoNs
  NoName = NoName
  MaxIndex = 2
  Mtus = {1}
  Clients = {c1, c2}
  Contexts <- PlainContexts
  Kinds = {"bridge", "soft"}
  LinkNs <- NoClientNs
  Ops = {"Present", "Del", "Up", "Down", "SetMtu", "SetMaster", "GetLinkByIndex"}
  Faults = {}
  Homed = TRUE
  Moves = FALSE
  Enslave = FALSE
VIEW WithoutRet
SYMMETRY NameSymmetry
PROPERTIES OnlyNamed TouchesOnly UpDownDone SetMtuPutsBack
CHECK_DEADLOCK FALSE
