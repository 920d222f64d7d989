SPECIFICATION Spec
CONSTANTS
  Clients = {c1, c2}
  Ifs = {1}
  RuleInputs <- SomeRules
  AddrInputs <- SomeAddrs
  Matches = {"src", "dev"}
  Addressed = {"src"}
  Inet = {"v4"}
  Inet6 = {"v6"}
  Mapped = {"mapped"}
  MaxBatch = 2
  MaxRules = 4
  MaxPref = 3
  Faults = {"dial", "recv"}
VIEW InCall
SYMMETRY Symmetry
INVARIANTS TypeOK NoDuplicateRules
PROPERTIES PresentEnsures PresentKeeps DelOnlyFitting BatchPrefix
CHECK_DEADLOCK FALSE
