SPECIFICATION Spec
CONSTANTS
  n1 = n1
  n2 = n2
  Namespaces = {n1, n2}
  Names = {a, b}
  NoNs = NoNs
  NoName = NoName
  MaxIndex = 3
  Mtus = {}
  Clients = {c1, c2}
  Contexts <- TargetContexts
  Kinds = {"veth"}
  LinkNs <- WithTarget
  Ops = {"Add", "Present", "Del", "Absent", "GetLink"}
  Faults = {"recv"}
  Homed = TRUE
  Moves = FALSE
  Enslave = FALSE
VIEW WithoutRet
SYMMETRY NameSymmetry
INVARIANTS IndexNameAgree
PROPERTIES ImplementsDirectory PresentEnsures
CHECK_DEADLOCK FALSE
