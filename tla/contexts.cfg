SPECIFICATION Spec
CONSTANTS
  Goroutines = {g1}
  Contexts = {x1, x2, x3}
  NoContext = NoContext
  Namespaces = {host, other}
  Host = host
  Nowhere = Nowhere
  MaxFd = 3
  host = host
  other = other
SYMMETRY Symmetry
INVARIANTS TypeOK OneOwner
PROPERTIES RightNamespace OpenServes LinkLands ImplementsHandles
CHECK_DEADLOCK FALSE
