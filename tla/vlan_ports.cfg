SPECIFICATION Spec
CONSTANTS
  Clients = {c1, c2}
  Names = {a, b}
  MaxIndex = 2
  Vids = {0, 1, 2}
  Asks <- SomeAsks
  Faults = {"dial", "recv"}
VIEW WithoutRet
SYMMETRY Symmetry
INVARIANTS TypeOK
PROPERTIES VlanStands OnlyItsVlan ImplementsAtomicVlan
CHECK_DEADLOCK FALSE
