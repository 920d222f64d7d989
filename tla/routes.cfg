SPECIFICATION Spec
CONSTANTS
  Clients = {c1}
  d = d
  d6 = d6
  g = g
  Dests = {d}
  Inet6 = {d6}
  Gateways = {g}
  NoGw = NoGw
  Names = {"eth0", "eth1"}
  Behind <- OneBehind
  RouteInputs <- SomeInputs
  MaxIndex = 3
  MaxRoutes = 3
  ForeignInputs <- Foreigners
  Texts = {"bare", "wrapped"}
  Faults = {"dial", "recv"}
VIEW WithoutRet
INVARIANT TypeOK
PROPERTIES PresentEnsures PresentKeeps DelTakesOne ThroughNamed
CHECK_DEADLOCK FALSE
