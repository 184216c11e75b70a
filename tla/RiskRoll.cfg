\* A day roll between two trading days, with crashes and failed commits.
CONSTANTS
  p1 = p1
  p2 = p2
  Procs = {p1, p2}
  Symbols = {"X"}
  Values = {1}
  Seeds = {0}
  Grosses = {0}
  Pnls <- MCPnls
  MaxOrders = 1
  PosCap = 1
  GrossCap = 0
  MaxLoss = 1
  LastDay = 1
  MidnightRace = FALSE
SPECIFICATION Spec
SYMMETRY ProcSymmetry
CHECK_DEADLOCK FALSE
INVARIANT OrderCapRespected
PROPERTY LossHaltHolds
PROPERTY ActsAsOneAccount
