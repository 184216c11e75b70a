\* One trading day, two processes, every operation and every commit outcome.
CONSTANTS
  p1 = p1
  p2 = p2
  Procs = {p1, p2}
  Symbols = {"X"}
  Values = {1}
  Seeds = {1}
  Grosses = {0, 1}
  Pnls <- MCPnls
  MaxOrders = 2
  PosCap = 1
  GrossCap = 0
  MaxLoss = 1
  LastDay = 0
  MidnightRace = FALSE
SPECIFICATION FairSpec
\* the clock stops at LastDay and every process may be down
CHECK_DEADLOCK FALSE
INVARIANT TypeOK
INVARIANT OrderCapRespected
INVARIANT PositionCapRespected
PROPERTY EveryoneIsAnswered
