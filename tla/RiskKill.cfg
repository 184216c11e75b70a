\* kill() as the first operation of a new day.
CONSTANTS
  p1 = p1
  p2 = p2
  Procs = {p1, p2}
  Symbols = {"X"}
  Values = {1}
  Seeds = {0}
  Grosses = {0}
  Pnls <- MCPnls
  MaxOrders = 1
  PosCap = 1
  GrossCap = 0
  MaxLoss = 1
  LastDay = 1
  MidnightRace = FALSE
SPECIFICATION Spec
SYMMETRY ProcSymmetry
CHECK_DEADLOCK FALSE
PROPERTY KillHolds
