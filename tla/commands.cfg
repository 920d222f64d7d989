SPECIFICATION FairNlSpec
CONSTANTS
  n1 = n1
  a = a
  b = b
  Namespaces = {n1}
  Names = {a, b}
  NoNs = NoNs
  NoName = NoName
  MaxIndex = 3
  Mtus = {2}
  Clients = {c1, c2}
  Contexts <- PlainContexts
  Kinds = {"bridge", "soft", "veth"}
  LinkNs <- WithOwn
  Ops = {"Add", "Del", "Up", "Down", "SetMtu", "GetLink", "GetLinkByIndex"}
  Faults = {"recv"}
  Homed = FALSE
  Moves = TRUE
  Enslave = TRUE
  Own = n1
  Given <- Lines
VIEW WithoutRemains
INVARIANTS NlTypeOK
PROPERTIES ZeroMeansDone ActsOnFound EnslavesToNamed ListFails ImplementsDirectory CommandsBounded CommandsEnd
CHECK_DEADLOCK FALSE
