SPECIFICATION Spec
CONSTANTS
  Clients = {c1}
  Names = {a}
  MaxIndex = 1
  Vids = {2}
  Asks <- Arguments
  Faults = {}
PROPERTIES AlreadySet
CHECK_DEADLOCK FALSE
