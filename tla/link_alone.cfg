SPECIFICATION Spec
CONSTANTS
  n1 = n1
  n2 = n2
  Namespaces = {n1}
  Names = {a, b}
  NoNs = NoNs
  NoName = NoName
  MaxIndex = 3
  Mtus = {2}
  Clients = {c1}
  Contexts <- PlainContexts
  Kinds = {"bridge", "soft", "tun"}
  LinkNs <- NoClientNs
  Ops = {"Add", "Set", "Promisc", "Up", "SetMtu", "SetMaster", "Del"}
  Faults = {"dial"}
  Homed = TRUE
  Moves = FALSE
  Enslave = TRUE
VIEW WithoutRet
SYMMETRY NameSymmetry
INVARIANTS TypeOK
PROPERTIES SetMtuOnlyMtu AddReadsBack
CHECK_DEADLOCK FALSE
